---------------------------- MODULE Spec2Model ----------------------------
(***************************************************************************)
(* A model of the code-completion gateway (src/codegen/completion):        *)
(* the model catalog, the four provider adapters, the fill-in-middle       *)
(* context-budget allocator of call_fim_api, and the completion and chat   *)
(* views with their exception-to-response mapping.                         *)
(*                                                                         *)
(* Python str values are TLA+ strings.  A CJK character U+XXXX of a source *)
(* literal is written {XXXX}: the module's text is ASCII.                  *)
(***************************************************************************)
EXTENDS Integers, Sequences, FiniteSets, TLC

VARIABLES
    SUPPORTED_MODELS,   \* model_providers.SUPPORTED_MODELS, the module-level catalog
    environ,            \* provider keys whose *_API_KEY environment variable is set
    pc,                 \* position of the request being served / of the function run
    req,                \* the inbound HTTP request
    events,             \* what the handler did so far, in order
    upstream,           \* the request POSTed upstream whose reply is awaited
    reply,              \* what that POST came to: the exception raised or the reply
    resp,               \* the HTTP response
    args,               \* arguments of the pure function under check
    ret                 \* its result

vars == <<SUPPORTED_MODELS, environ, pc, req, events, upstream, reply, resp, args, ret>>

None == [none |-> TRUE]

---------------------------------------------------------------------------
(* Python str operations *)

CharAt(s, i) == SubSeq(s, i, i)

\* t in s
Contains(s, t) ==
    \E i \in 1..(Len(s) - Len(t) + 1) : SubSeq(s, i, i + Len(t) - 1) = t

\* the lower-case letter of each ASCII capital; str.lower() leaves every other
\* character used here (digits, punctuation, CJK) as it is
ToLower ==
    ("A" :> "a") @@ ("B" :> "b") @@ ("C" :> "c") @@ ("D" :> "d") @@ ("E" :> "e") @@ ("F"
    :> "f") @@ ("G" :> "g") @@ ("H" :> "h") @@ ("I" :> "i") @@ ("J" :> "j") @@ ("K" :>
    "k") @@ ("L" :> "l") @@ ("M" :> "m") @@ ("N" :> "n") @@ ("O" :> "o") @@ ("P" :> "p")
    @@ ("Q" :> "q") @@ ("R" :> "r") @@ ("S" :> "s") @@ ("T" :> "t") @@ ("U" :> "u") @@
    ("V" :> "v") @@ ("W" :> "w") @@ ("X" :> "x") @@ ("Y" :> "y") @@ ("Z" :> "z")

LowerChar(c) == IF c \in DOMAIN ToLower THEN ToLower[c] ELSE c

\* str.lower()
RECURSIVE Lower(_)
Lower(s) ==
    IF Len(s) <= 1 THEN LowerChar(s)
    ELSE LET half == Len(s) \div 2 IN
         Lower(SubSeq(s, 1, half)) \o Lower(SubSeq(s, half + 1, Len(s)))

\* x in list
InList(x, l) == \E i \in 1..Len(l) : l[i] = x

\* a function call's outcome: a value returned or an exception raised
NoExc == [cls |-> "", msg |-> ""]
Ret(v) == [ok |-> TRUE, val |-> v, exc |-> NoExc]
Raise(cls, msg) == [ok |-> FALSE, val |-> None, exc |-> [cls |-> cls, msg |-> msg]]

\* isinstance(e, ValueError): json.JSONDecodeError and UnicodeDecodeError derive from it
IsValueError(cls) == cls \in {"ValueError", "JSONDecodeError", "UnicodeDecodeError"}
IsJSONDecodeError(cls) == cls = "JSONDecodeError"

---------------------------------------------------------------------------
(* model_providers.py: the catalog *)

\* the "description" texts are display data no function of the package reads
Catalog ==
    [p \in {"deepseek", "openai", "anthropic", "zhipu"} |->
        CASE p = "deepseek" ->
               [models |-> <<"deepseek-chat", "deepseek-reasoner">>,
                default |-> "deepseek-chat"]
          [] p = "openai" ->
               [models |-> <<"gpt-4o", "gpt-4o-mini", "gpt-4-turbo", "gpt-4",
                             "gpt-3.5-turbo", "o1", "o1-mini", "o1-preview">>,
                default |-> "gpt-4o"]
          [] p = "anthropic" ->
               [models |-> <<"claude-3-5-sonnet-20241022", "claude-3-5-haiku-20241022",
                             "claude-3-opus-20240229", "claude-3-sonnet-20240229",
                             "claude-3-haiku-20240307">>,
                default |-> "claude-3-5-sonnet-20241022"]
          [] p = "zhipu" ->
               [models |-> <<"glm-4.7", "glm-4.6", "glm-4.5", "glm-4.5-air",
                             "glm-4-plus", "glm-4-flash", "glm-4">>,
                default |-> "glm-4-flash"]]

\* str(list) of a list of str, as an f-string prints it
RECURSIVE ListRepr(_)
ListRepr(l) ==
    IF l = <<>> THEN "[]"
    ELSE IF Len(l) = 1 THEN "['" \o l[1] \o "']"
    ELSE "['" \o l[1] \o "', " \o SubSeq(ListRepr(Tail(l)), 2, Len(ListRepr(Tail(l))))

\* list(SUPPORTED_MODELS.keys()): a dict keeps its insertion order
CatalogKeys == <<"deepseek", "openai", "anthropic", "zhipu">>

validate_model_folding_model_case(provider, model) ==
    LET p == Lower(provider) IN
    IF p \notin DOMAIN SUPPORTED_MODELS
    THEN Raise("ValueError", "{4E0D}{652F}{6301}{7684}{6A21}{578B}{63D0}{4F9B}{8005}: " \o p)
    ELSE IF ~InList(Lower(model), SUPPORTED_MODELS[p].models)
         THEN Raise("ValueError", "Provider '" \o p \o "' {4E0D}{652F}{6301}{6A21}{578B} '"
                                  \o model \o "'")
         ELSE Ret(model)

validate_model(provider, model) ==
    LET p == Lower(provider) IN
    IF p \notin DOMAIN SUPPORTED_MODELS
    THEN Raise("ValueError",
               "{4E0D}{652F}{6301}{7684}{6A21}{578B}{63D0}{4F9B}{8005}: " \o p
               \o "{3002}{652F}{6301}: " \o ListRepr(CatalogKeys))
    ELSE IF ~InList(model, SUPPORTED_MODELS[p].models)
         THEN Raise("ValueError",
                    "Provider '" \o p \o "' {4E0D}{652F}{6301}{6A21}{578B} '" \o model
                    \o "'{3002}{652F}{6301}{7684}{6A21}{578B}: "
                    \o ListRepr(SUPPORTED_MODELS[p].models))
         ELSE Ret(model)

get_default_model(provider) ==
    LET p == Lower(provider) IN
    IF p \notin DOMAIN SUPPORTED_MODELS
    THEN Raise("ValueError", "{4E0D}{652F}{6301}{7684}{6A21}{578B}{63D0}{4F9B}{8005}: " \o p)
    ELSE Ret(SUPPORTED_MODELS[p].default)

---------------------------------------------------------------------------
(* JSON values as json.loads builds them *)

NoDict == [keys |-> {}, name |-> "", signature |-> ""]
JStr(s) == [t |-> "str", s |-> s, n |-> 0, l |-> <<>>, d |-> NoDict]
JNum(n) == [t |-> "num", s |-> "", n |-> n, l |-> <<>>, d |-> NoDict]
JNull == [t |-> "null", s |-> "", n |-> 0, l |-> <<>>, d |-> NoDict]
JList(l) == [t |-> "list", s |-> "", n |-> 0, l |-> l, d |-> NoDict]
\* a dict of a function entry: which of the keys name and signature it holds, and their
\* (string) values
JFunc(keys, name, signature) ==
    [t |-> "dict", s |-> "", n |-> 0, l |-> <<>>,
     d |-> [keys |-> keys, name |-> name, signature |-> signature]]

\* bool(v)
Truthy(v) ==
    CASE v.t = "str" -> v.s # ""
      [] v.t = "num" -> v.n # 0
      [] v.t = "null" -> FALSE
      [] v.t = "list" -> v.l # <<>>
      [] v.t = "dict" -> v.d.keys # {}

Min(a, b) == IF a < b THEN a ELSE b
Max(a, b) == IF a > b THEN a ELSE b

\* s[:n] for n >= 0, on a str or a list
Take(s, n) == SubSeq(s, 1, Min(n, Len(s)))

RECURSIVE Rep(_, _)
Rep(s, n) ==
    IF n = 0 THEN ""
    ELSE IF n % 2 = 1 THEN s \o Rep(s, n - 1)
    ELSE LET h == Rep(s, n \div 2) IN h \o h

\* a text of n characters in which the character at a place tells the place modulo
\* the alphabet's length
Text(alphabet, n) == Take(Rep(alphabet, n \div Len(alphabet) + 1), n)

\* s[-n:] for n > 0
LastN(s, n) == SubSeq(s, Max(1, Len(s) - n + 1), Len(s))

IsSpace(c) == c \in {" ", "\t", "\n", "\r"}

\* str.lstrip(), str.rstrip(), str.strip()
RECURSIVE LStrip(_)
LStrip(s) == IF s # "" /\ IsSpace(CharAt(s, 1)) THEN LStrip(SubSeq(s, 2, Len(s))) ELSE s
RECURSIVE RStrip(_)
RStrip(s) ==
    IF s # "" /\ IsSpace(CharAt(s, Len(s))) THEN RStrip(SubSeq(s, 1, Len(s) - 1)) ELSE s
Strip(s) == RStrip(LStrip(s))

\* sep.join(parts)
RECURSIVE Join(_, _)
Join(sep, parts) ==
    IF parts = <<>> THEN ""
    ELSE IF Len(parts) = 1 THEN parts[1]
    ELSE parts[1] \o sep \o Join(sep, Tail(parts))


---------------------------------------------------------------------------
(* services.py: call_fim_api *)

MAX_TOTAL_LENGTH == 8000
MAX_INCLUDES == 10
MAX_FUNCTIONS == 5
MAX_PROMPT_LENGTH == 4000
MAX_SUFFIX_LENGTH == 4000
MinSuffixWindow == 100
SuffixReserve == 200
FallbackLength == 500

\* lines 41-46: an entry without a name is given one, in place
name_functions(other_functions) ==
    IF Truthy(other_functions) /\ other_functions.t = "list"
    THEN [other_functions EXCEPT !.l =
            [i \in 1..Len(other_functions.l) |->
                LET func == other_functions.l[i] IN
                IF func.t = "dict" /\ "name" \notin func.d.keys
                THEN [func EXCEPT !.d.keys = @ \cup {"name"},
                                  !.d.name = "function_" \o ToString(i - 1)]
                ELSE func]]
    ELSE other_functions

\* lines 25-46: Ret(other_functions as the loop leaves it) or the ValueError raised
fim_validate(prompt, suffix, includes, other_functions) ==
    LET badInc == {i \in 1..Len(includes.l) : includes.l[i].t # "str"}
        badFn == {i \in 1..Len(other_functions.l) : other_functions.l[i].t # "dict"}
        first(S) == CHOOSE i \in S : \A j \in S : i <= j
    IN
    IF prompt.t # "str" \/ suffix.t # "str"
    THEN Raise("ValueError", "prompt{548C}suffix{5FC5}{987B}{662F}{5B57}{7B26}{4E32}")
    ELSE IF Truthy(includes) /\ includes.t # "list"
    THEN Raise("ValueError", "includes{5FC5}{987B}{662F}{6570}{7EC4}")
    ELSE IF Truthy(other_functions) /\ other_functions.t # "list"
    THEN Raise("ValueError", "other_functions{5FC5}{987B}{662F}{6570}{7EC4}")
    ELSE IF Truthy(includes) /\ badInc # {}
    THEN Raise("ValueError", "includes[" \o ToString(first(badInc) - 1)
                             \o "]{5FC5}{987B}{662F}{5B57}{7B26}{4E32}")
    ELSE IF Truthy(other_functions) /\ badFn # {}
    THEN Raise("ValueError", "other_functions[" \o ToString(first(badFn) - 1)
                             \o "]{5FC5}{987B}{662F}{5BF9}{8C61}")
    ELSE Ret(name_functions(other_functions))

Separator == <<"", "==========", "">>

\* cleaned_includes without the limit of line 54: every entry of includes is taken
cleaned_includes_unlimited(includes) ==
    IF Truthy(includes)
    THEN LET kept == SelectSeq(includes.l, LAMBDA inc : Strip(inc.s) # "")
         IN [i \in 1..Len(kept) |-> Strip(kept[i].s)]
    ELSE <<>>

\* lines 52-57
cleaned_includes(includes) ==
    IF Truthy(includes)
    THEN LET limited_includes == Take(includes.l, MAX_INCLUDES)
             kept == SelectSeq(limited_includes, LAMBDA inc : Strip(inc.s) # "")
         IN [i \in 1..Len(kept) |-> Strip(kept[i].s)]
    ELSE <<>>

\* line 70: func.get('signature', func.get('name', ''))
signature_of(func) ==
    IF "signature" \in func.d.keys THEN func.d.signature
    ELSE IF "name" \in func.d.keys THEN func.d.name
    ELSE ""

\* function_lines without the limit of line 67: every entry of other_functions is taken
function_lines_unlimited(other_functions) ==
    IF Truthy(other_functions)
    THEN LET signed == SelectSeq(other_functions.l, LAMBDA func : signature_of(func) # "")
         IN <<"// Available functions in this file:">>
            \o [i \in 1..Len(signed) |-> "//   " \o signature_of(signed[i])]
    ELSE <<>>

\* lines 66-72
function_lines(other_functions) ==
    IF Truthy(other_functions)
    THEN LET limited_functions == Take(other_functions.l, MAX_FUNCTIONS)
             signed == SelectSeq(limited_functions, LAMBDA func : signature_of(func) # "")
         IN <<"// Available functions in this file:">>
            \o [i \in 1..Len(signed) |-> "//   " \o signature_of(signed[i])]
    ELSE <<>>

\* trim_prompt keeping the end of the prompt: prompt[-MAX_PROMPT_LENGTH:]
trim_prompt_keeping_tail(prompt) ==
    IF Len(prompt) > MAX_PROMPT_LENGTH THEN LastN(prompt, MAX_PROMPT_LENGTH) ELSE prompt

\* line 81
trim_prompt(prompt) ==
    IF Len(prompt) > MAX_PROMPT_LENGTH THEN Take(prompt, MAX_PROMPT_LENGTH) ELSE prompt

\* prompt_parts with line 75's guard dropped: the separator is put before the prompt
\* even when nothing precedes it
prompt_parts_always_separating(prompt, includes, other_functions) ==
    LET incs == cleaned_includes(includes)
        sep1 == IF incs # <<>> /\ Truthy(other_functions) THEN Separator ELSE <<>>
    IN incs \o sep1 \o function_lines(other_functions) \o Separator
       \o <<trim_prompt(prompt)>>

\* prompt_parts without lines 60-63: nothing separates the includes from the functions
prompt_parts_joining_blocks(prompt, includes, other_functions) ==
    LET upto == cleaned_includes(includes) \o function_lines(other_functions)
        sep2 == IF upto # <<>> /\ (Truthy(includes) \/ Truthy(other_functions))
                THEN Separator ELSE <<>>
    IN upto \o sep2 \o <<trim_prompt(prompt)>>

\* lines 49-82: prompt_parts as it stands before the join
prompt_parts(prompt, includes, other_functions) ==
    LET incs == cleaned_includes(includes)
        sep1 == IF incs # <<>> /\ Truthy(other_functions) THEN Separator ELSE <<>>
        upto == incs \o sep1 \o function_lines(other_functions)
        sep2 == IF upto # <<>> /\ (Truthy(includes) \/ Truthy(other_functions))
                THEN Separator ELSE <<>>
    IN upto \o sep2 \o <<trim_prompt(prompt)>>

\* enforce_budget with line 98 dropped: the prompt gives way to the reserve but the
\* suffix is not cut down to it
enforce_budget_keeping_suffix(full_prompt, trimmed_prompt, suffix) ==
    LET total_length == Len(full_prompt) + Len(suffix)
        max_suffix_length == MAX_TOTAL_LENGTH - Len(full_prompt)
        available_for_prompt == MAX_TOTAL_LENGTH - SuffixReserve
    IN
    IF total_length > MAX_TOTAL_LENGTH
    THEN IF max_suffix_length > MinSuffixWindow
         THEN [full_prompt |-> full_prompt, suffix |-> Take(suffix, max_suffix_length),
               branch |-> "shrink_suffix"]
         ELSE IF available_for_prompt > 0
         THEN [full_prompt |-> LastN(full_prompt, available_for_prompt),
               suffix |-> suffix, branch |-> "reserve"]
         ELSE [full_prompt |-> LastN(trimmed_prompt, FallbackLength),
               suffix |-> Take(suffix, FallbackLength), branch |-> "fallback"]
    ELSE [full_prompt |-> full_prompt, suffix |-> suffix, branch |-> "fits"]

\* enforce_budget with the reserve of line 95 taken from what the fullPrompt leaves of
\* the budget: MAX_TOTAL_LENGTH - len(full_prompt) - 200
enforce_budget_reserving_from_rest(full_prompt, trimmed_prompt, suffix) ==
    LET total_length == Len(full_prompt) + Len(suffix)
        max_suffix_length == MAX_TOTAL_LENGTH - Len(full_prompt)
        available_for_prompt == MAX_TOTAL_LENGTH - Len(full_prompt) - SuffixReserve
    IN
    IF total_length > MAX_TOTAL_LENGTH
    THEN IF max_suffix_length > MinSuffixWindow
         THEN [full_prompt |-> full_prompt, suffix |-> Take(suffix, max_suffix_length),
               branch |-> "shrink_suffix"]
         ELSE IF available_for_prompt > 0
         THEN [full_prompt |-> LastN(full_prompt, available_for_prompt),
               suffix |-> Take(suffix, SuffixReserve), branch |-> "reserve"]
         ELSE [full_prompt |-> LastN(trimmed_prompt, FallbackLength),
               suffix |-> Take(suffix, FallbackLength), branch |-> "fallback"]
    ELSE [full_prompt |-> full_prompt, suffix |-> suffix, branch |-> "fits"]

\* enforce_budget leaving the fullPrompt less than a whole prompt at line 95:
\* MAX_PROMPT_LENGTH - 200
enforce_budget_cutting_into_prompt(full_prompt, trimmed_prompt, suffix) ==
    LET total_length == Len(full_prompt) + Len(suffix)
        max_suffix_length == MAX_TOTAL_LENGTH - Len(full_prompt)
        available_for_prompt == MAX_PROMPT_LENGTH - SuffixReserve
    IN
    IF total_length > MAX_TOTAL_LENGTH
    THEN IF max_suffix_length > MinSuffixWindow
         THEN [full_prompt |-> full_prompt, suffix |-> Take(suffix, max_suffix_length),
               branch |-> "shrink_suffix"]
         ELSE IF available_for_prompt > 0
         THEN [full_prompt |-> LastN(full_prompt, available_for_prompt),
               suffix |-> Take(suffix, SuffixReserve), branch |-> "reserve"]
         ELSE [full_prompt |-> LastN(trimmed_prompt, FallbackLength),
               suffix |-> Take(suffix, FallbackLength), branch |-> "fallback"]
    ELSE [full_prompt |-> full_prompt, suffix |-> suffix, branch |-> "fits"]

\* enforce_budget keeping the head of the fullPrompt at line 98:
\* full_prompt[:available_for_prompt]
enforce_budget_keeping_head(full_prompt, trimmed_prompt, suffix) ==
    LET total_length == Len(full_prompt) + Len(suffix)
        max_suffix_length == MAX_TOTAL_LENGTH - Len(full_prompt)
        available_for_prompt == MAX_TOTAL_LENGTH - SuffixReserve
    IN
    IF total_length > MAX_TOTAL_LENGTH
    THEN IF max_suffix_length > MinSuffixWindow
         THEN [full_prompt |-> full_prompt, suffix |-> Take(suffix, max_suffix_length),
               branch |-> "shrink_suffix"]
         ELSE IF available_for_prompt > 0
         THEN [full_prompt |-> Take(full_prompt, available_for_prompt),
               suffix |-> Take(suffix, SuffixReserve), branch |-> "reserve"]
         ELSE [full_prompt |-> LastN(trimmed_prompt, FallbackLength),
               suffix |-> Take(suffix, FallbackLength), branch |-> "fallback"]
    ELSE [full_prompt |-> full_prompt, suffix |-> suffix, branch |-> "fits"]

\* lines 88-105: the pair sent upstream, and the branch that produced it
enforce_budget(full_prompt, trimmed_prompt, suffix) ==
    LET total_length == Len(full_prompt) + Len(suffix)
        max_suffix_length == MAX_TOTAL_LENGTH - Len(full_prompt)
        available_for_prompt == MAX_TOTAL_LENGTH - SuffixReserve
    IN
    IF total_length > MAX_TOTAL_LENGTH
    THEN IF max_suffix_length > MinSuffixWindow
         THEN [full_prompt |-> full_prompt, suffix |-> Take(suffix, max_suffix_length),
               branch |-> "shrink_suffix"]
         ELSE IF available_for_prompt > 0
         THEN [full_prompt |-> LastN(full_prompt, available_for_prompt),
               suffix |-> Take(suffix, SuffixReserve), branch |-> "reserve"]
         ELSE [full_prompt |-> LastN(trimmed_prompt, FallbackLength),
               suffix |-> Take(suffix, FallbackLength), branch |-> "fallback"]
    ELSE [full_prompt |-> full_prompt, suffix |-> suffix, branch |-> "fits"]

\* lines 49-105 on validated arguments (prompt and suffix are str)
allocate(prompt, suffix, includes, other_functions) ==
    enforce_budget(Join("\n", prompt_parts(prompt, includes, other_functions)),
                   trim_prompt(prompt), suffix)

\* lines 25-105: what call_fim_api has in hand when it reaches the upstream call, or
\* the ValueError its validation raised
fim_prepare(prompt, suffix, includes, other_functions) ==
    LET v == fim_validate(prompt, suffix, includes, other_functions) IN
    IF v.ok THEN Ret(allocate(prompt.s, suffix.s, includes, v.val)) ELSE v

---------------------------------------------------------------------------
(* The upstream call: what requests.post and the reply it returns can be *)

\* the JSON document of an upstream reply: json_ok is whether response.json() parses
\* it; err is the shape of its "error" member; items is its "choices" (for Anthropic
\* "content") list, each item with the members it holds
UpstreamBody(json_ok, err, err_msg, items_present, items) ==
    [json_ok |-> json_ok, err |-> err, err_msg |-> err_msg,
     items_present |-> items_present, items |-> items]

Item(fields, text, content, reasoning_content) ==
    [fields |-> fields, text |-> text, content |-> content,
     reasoning_content |-> reasoning_content]

NoBody == UpstreamBody(FALSE, "absent", "", FALSE, <<>>)

\* requests.post raised (timeout, connection, request_exception with str(e) = text) or
\* returned a response; json_exc is the class response.json() raises on a document it
\* cannot parse, which the installed requests decides: RequestsJSONDecodeError derives
\* from RequestException (requests 2.27 and later), before that it is json's own class
RequestsJSONDecodeError == "requests.exceptions.JSONDecodeError"
Outcome(kind, text, status, body) ==
    [kind |-> kind, text |-> text, status |-> status, body |-> body,
     json_exc |-> RequestsJSONDecodeError]
OlderRequests(outcome) == [outcome EXCEPT !.json_exc = "JSONDecodeError"]

\* str(e) of the error response.json() raises
JsonErrorText == "Expecting value: line 1 column 1 (char 0)"

\* lines 127-132 of services.py and the same lines of each adapter: the detail appended
\* to the status message, best effort
error_detail(body) ==
    IF ~body.json_ok THEN ""
    ELSE CASE body.err = "absent" -> " - {672A}{77E5}{9519}{8BEF}"
           [] body.err = "dict_without_message" -> " - {672A}{77E5}{9519}{8BEF}"
           [] body.err = "dict_with_message" -> " - " \o body.err_msg
           [] body.err = "string" -> ""

\* str.replace(old, new), old not empty
RECURSIVE Replace(_, _, _)
Replace(s, old, new) ==
    LET found == {i \in 1..(Len(s) - Len(old) + 1) : SubSeq(s, i, i + Len(old) - 1) = old} IN
    IF found = {} THEN s
    ELSE LET first == CHOOSE i \in found : \A j \in found : i <= j IN
         SubSeq(s, 1, first - 1) \o new
         \o Replace(SubSeq(s, first + Len(old), Len(s)), old, new)

MaxSuggestionLength == 500
LabelLength == 30

NoSuggestion == [is_none |-> TRUE, text |-> "", label |-> ""]

\* a backtick is written ~
\* lines 148-152 of services.py
clean_text(raw) ==
    Strip(Replace(Replace(Replace(Replace(Strip(raw), "~~~cpp", ""), "~~~python", ""),
                          "~~~c", ""), "~~~", ""))

\* parse_suggestion without the cut at lines 159-160
parse_suggestion_uncut(body) ==
    IF ~body.items_present \/ body.items = <<>> THEN NoSuggestion
    ELSE LET choice == body.items[1] IN
         IF "text" \notin choice.fields THEN NoSuggestion
         ELSE LET text == clean_text(choice.text) IN
              IF text = "" THEN NoSuggestion
              ELSE [is_none |-> FALSE, text |-> text,
                    label |-> IF Len(text) > LabelLength
                              THEN Replace(Take(text, LabelLength), "\n", " ") \o "..."
                              ELSE text]

\* lines 138-167 of services.py
parse_suggestion(body) ==
    IF ~body.items_present \/ body.items = <<>> THEN NoSuggestion
    ELSE LET choice == body.items[1] IN
         IF "text" \notin choice.fields THEN NoSuggestion
         ELSE LET cleaned == clean_text(choice.text) IN
              IF cleaned = "" THEN NoSuggestion
              ELSE LET text == IF Len(cleaned) > MaxSuggestionLength
                               THEN Take(cleaned, MaxSuggestionLength) ELSE cleaned
                   IN [is_none |-> FALSE, text |-> text,
                       label |-> IF Len(text) > LabelLength
                                 THEN Replace(Take(text, LabelLength), "\n", " ") \o "..."
                                 ELSE text]

\* lines 122-178 of services.py, from the reply of the POST on
fim_finish(outcome) ==
    CASE outcome.kind = "timeout" ->
           Raise("Exception", "LLM API{8C03}{7528}{8D85}{65F6}")
      [] outcome.kind = "connection" ->
           Raise("Exception", "{65E0}{6CD5}{8FDE}{63A5}{5230}LLM API")
      [] outcome.kind = "request_exception" ->
           Raise("Exception", "LLM API{8C03}{7528}{5931}{8D25}: " \o outcome.text)
      [] outcome.kind = "response" ->
           IF outcome.status # 200
           THEN Raise("Exception",
                      "{5904}{7406}LLM API{54CD}{5E94}{65F6}{53D1}{751F}{9519}{8BEF}: "
                      \o "LLM API{8FD4}{56DE}{9519}{8BEF}: " \o ToString(outcome.status)
                      \o error_detail(outcome.body))
           ELSE IF ~outcome.body.json_ok
           THEN IF outcome.json_exc = RequestsJSONDecodeError
                THEN Raise("Exception", "LLM API{8C03}{7528}{5931}{8D25}: " \o JsonErrorText)
                ELSE Raise("Exception", "LLM API{8FD4}{56DE}{7684}JSON{683C}{5F0F}{65E0}{6548}")
           ELSE Ret(parse_suggestion(outcome.body))

---------------------------------------------------------------------------
(* model_providers.py: the adapters *)

Providers == {"deepseek", "openai", "anthropic", "zhipu"}

\* the name each adapter's messages carry, and whether a space follows the words
\* before "... API" in its cannot-connect message
ApiName(p) ==
    CASE p = "deepseek" -> "DeepSeek API"
      [] p = "openai" -> "OpenAI API"
      [] p = "anthropic" -> "Anthropic API"
      [] p = "zhipu" -> "{667A}{8C31}AI API"

API_URL(p) ==
    CASE p = "deepseek" -> "https://api.deepseek.com/v1/chat/completions"
      [] p = "openai" -> "https://api.openai.com/v1/chat/completions"
      [] p = "anthropic" -> "https://api.anthropic.com/v1/messages"
      [] p = "zhipu" -> "https://open.bigmodel.cn/api/coding/paas/v4/chat/completions"

EnvName(p) ==
    CASE p = "deepseek" -> "DEEPSEEK_API_KEY"
      [] p = "openai" -> "OPENAI_API_KEY"
      [] p = "anthropic" -> "ANTHROPIC_API_KEY"
      [] p = "zhipu" -> "ZHIPU_API_KEY"

\* get_api_key of each adapter: the key is named by the provider whose variable holds it
get_api_key(p) ==
    IF p \in environ THEN Ret([key_of |-> p])
    ELSE Raise("ValueError", EnvName(p) \o " {73AF}{5883}{53D8}{91CF}{672A}{8BBE}{7F6E}")

\* anthropic_body with a loop that stops at the first system (user) message
anthropic_body_taking_first(messages, model, max_tokens) ==
    LET sys == {i \in 1..Len(messages) : messages[i].role = "system"}
        usr == {i \in 1..Len(messages) : messages[i].role = "user"}
        first(S) == CHOOSE i \in S : \A j \in S : i <= j
        system_message == IF sys = {} THEN "" ELSE messages[first(sys)].content
        user_message == IF usr = {} THEN "" ELSE messages[first(usr)].content
    IN [model |-> model, max_tokens |-> max_tokens,
        messages |-> <<[role |-> "user", content |-> user_message]>>,
        has_system |-> system_message # "", system |-> system_message]

\* AnthropicProvider.chat lines 255-270: each system (user) message overwrites the one
\* before it
anthropic_body(messages, model, max_tokens) ==
    LET sys == {i \in 1..Len(messages) : messages[i].role = "system"}
        usr == {i \in 1..Len(messages) : messages[i].role = "user"}
        last(S) == CHOOSE i \in S : \A j \in S : i >= j
        system_message == IF sys = {} THEN "" ELSE messages[last(sys)].content
        user_message == IF usr = {} THEN "" ELSE messages[last(usr)].content
    IN [model |-> model, max_tokens |-> max_tokens,
        messages |-> <<[role |-> "user", content |-> user_message]>>,
        has_system |-> system_message # "", system |-> system_message]

ChatTimeout == 30
FimTimeout == 10

\* the request an adapter's chat POSTs, given the key
chat_request(p, key, messages, model, max_tokens) ==
    [url |-> API_URL(p),
     auth |-> IF p = "anthropic" THEN [header |-> "x-api-key", key_of |-> key.key_of]
              ELSE [header |-> "Authorization: Bearer", key_of |-> key.key_of],
     json |-> IF p = "anthropic" THEN anthropic_body(messages, model, max_tokens)
              ELSE [model |-> model, messages |-> messages, max_tokens |-> max_tokens],
     timeout |-> ChatTimeout]

\* what an adapter's chat does before it waits for the reply: the events in order, and
\* the exception raised or the request posted
chat_begin_posting_first(p, messages, model, max_tokens) ==
    LET anykey == [key_of |-> p] IN
    IF p \in environ
    THEN [events |-> <<"get_api_key", "post">>, exc |-> NoExc,
          sent |-> chat_request(p, anykey, messages, model, max_tokens)]
    ELSE [events |-> <<"post", "get_api_key", "missing_credential">>,
          exc |-> get_api_key(p).exc,
          sent |-> chat_request(p, anykey, messages, model, max_tokens)]

\* lines 134-147, 190-203, 246-275, 318-331
chat_begin(p, messages, model, max_tokens) ==
    LET api_key == get_api_key(p) IN
    IF ~api_key.ok
    THEN [events |-> <<"get_api_key", "missing_credential">>, exc |-> api_key.exc,
          sent |-> None]
    ELSE [events |-> <<"get_api_key", "post">>, exc |-> NoExc,
          sent |-> chat_request(p, api_key.val, messages, model, max_tokens)]

\* extract_text without the test of lines 161-162 (217-218, 289-290, 345-346)
extract_text_indexing_first(p, body) ==
    IF ~body.items_present
    THEN Raise("KeyError", IF p = "anthropic" THEN "'content'" ELSE "'choices'")
    ELSE IF body.items = <<>> THEN Raise("IndexError", "list index out of range")
    ELSE LET first == body.items[1] IN
         IF p = "anthropic"
         THEN IF "text" \in first.fields THEN Ret(first.text)
              ELSE Raise("KeyError", "'text'")
         ELSE IF "message" \notin first.fields THEN Raise("KeyError", "'message'")
         ELSE IF p = "zhipu"
         THEN LET content == IF "content" \in first.fields THEN first.content ELSE "" IN
              IF content # "" THEN Ret(content)
              ELSE Ret(IF "reasoning_content" \in first.fields
                       THEN first.reasoning_content ELSE "")
         ELSE IF "content" \in first.fields THEN Ret(first.content)
              ELSE Raise("KeyError", "'content'")

\* the text an adapter reads from a 200 reply
extract_text(p, body) ==
    IF ~body.items_present \/ body.items = <<>> THEN Ret("")
    ELSE LET first == body.items[1] IN
         IF p = "anthropic"
         THEN IF "text" \in first.fields THEN Ret(first.text)
              ELSE Raise("KeyError", "'text'")
         ELSE IF "message" \notin first.fields THEN Raise("KeyError", "'message'")
         ELSE IF p = "zhipu"
         THEN LET content == IF "content" \in first.fields THEN first.content ELSE "" IN
              IF content # "" THEN Ret(content)
              ELSE Ret(IF "reasoning_content" \in first.fields
                       THEN first.reasoning_content ELSE "")
         ELSE IF "content" \in first.fields THEN Ret(first.content)
              ELSE Raise("KeyError", "'content'")

\* lines 149-172, 205-228, 277-300, 333-360: an adapter's chat from the reply on
chat_finish(p, outcome) ==
    CASE outcome.kind = "timeout" ->
           Raise("Exception", ApiName(p) \o " {8C03}{7528}{8D85}{65F6}")
      [] outcome.kind = "connection" ->
           Raise("Exception", "{65E0}{6CD5}{8FDE}{63A5}{5230}"
                              \o (IF p = "zhipu" THEN "" ELSE " ") \o ApiName(p))
      [] outcome.kind = "request_exception" ->
           Raise("Exception", ApiName(p) \o " {8C03}{7528}{5931}{8D25}: " \o outcome.text)
      [] outcome.kind = "response" ->
           IF outcome.status # 200
           THEN Raise("Exception", ApiName(p) \o " {8FD4}{56DE}{9519}{8BEF}: "
                                   \o ToString(outcome.status) \o error_detail(outcome.body))
           ELSE IF ~outcome.body.json_ok
           THEN IF outcome.json_exc = RequestsJSONDecodeError
                THEN Raise("Exception",
                           ApiName(p) \o " {8C03}{7528}{5931}{8D25}: " \o JsonErrorText)
                ELSE Raise(outcome.json_exc, JsonErrorText)
           ELSE extract_text(p, outcome.body)

---------------------------------------------------------------------------
(* prompt_templates.py and chat_service.py *)

CODE_COMPLETION_SYSTEM ==
    "{4F60}{662F}{4E00}{4E2A}{4E13}{4E1A}{7684}{4EE3}{7801}{8865}{5168}{52A9}{624B}{3002}\n"
    \o "{6839}{636E}{4E0A}{4E0B}{6587}{4EE3}{7801}{FF0C}{8865}{5168}{5149}{6807}{5904}{7684}{4EE3}{7801}{3002}\n"
    \o "{53EA}{8F93}{51FA}{9700}{8981}{8865}{5168}{7684}{4EE3}{7801}{FF0C}{4E0D}{8981}{8F93}{51FA}{89E3}{91CA}{6216}{5176}{4ED6}{5185}{5BB9}{3002}\n"
    \o "{4FDD}{6301}{4EE3}{7801}{98CE}{683C}{4E0E}{4E0A}{4E0B}{6587}{4E00}{81F4}{3002}"

\* CODE_COMPLETION_USER_TEMPLATE.format(...)
user_content(includes_str, functions_str, prompt, suffix) ==
    "{4E0A}{4E0B}{6587}{4EE3}{7801}:\n~~~\n" \o includes_str \o "\n~~~\n\n"
    \o "{5F53}{524D}{6587}{4EF6}{4E2D}{7684}{51FD}{6570}:\n" \o functions_str \o "\n\n"
    \o "{5F85}{8865}{5168}{4EE3}{7801}:\n~~~\n" \o prompt \o "{258C}" \o suffix \o "\n~~~\n\n"
    \o "{8BF7}{8865}{5168}{5149}{6807}{5904}{7684}{4EE3}{7801}:"

Placeholder == "{65E0}"
TemplateIncludes == 10
TemplateFunctions == 5

TypeName(v) ==
    CASE v.t = "str" -> "str" [] v.t = "num" -> "int" [] v.t = "null" -> "NoneType"
      [] v.t = "list" -> "list" [] v.t = "dict" -> "dict"

\* build_code_completion_prompt: the two messages, or the exception a malformed element
\* raises in join or in func.get
build_code_completion_prompt(prompt, suffix, includes, other_functions) ==
    LET incs == IF Truthy(includes) THEN Take(includes.l, TemplateIncludes) ELSE <<>>
        fns == IF Truthy(other_functions) THEN Take(other_functions.l, TemplateFunctions)
               ELSE <<>>
        badInc == {i \in 1..Len(incs) : incs[i].t # "str"}
        badFn == {i \in 1..Len(fns) : fns[i].t # "dict"}
        first(S) == CHOOSE i \in S : \A j \in S : i <= j
        includes_str == IF Truthy(includes)
                        THEN Join("\n", [i \in 1..Len(incs) |-> incs[i].s])
                        ELSE Placeholder
        signed == SelectSeq(fns, LAMBDA func : signature_of(func) # "")
        functions_list == [i \in 1..Len(signed) |-> "  " \o signature_of(signed[i])]
        functions_str == IF ~Truthy(other_functions) THEN ""
                         ELSE IF functions_list # <<>> THEN Join("\n", functions_list)
                         ELSE Placeholder
    IN
    IF badInc # {}
    THEN Raise("TypeError", "sequence item " \o ToString(first(badInc) - 1)
                            \o ": expected str instance, "
                            \o TypeName(incs[first(badInc)]) \o " found")
    ELSE IF badFn # {}
    THEN Raise("AttributeError", "'" \o TypeName(fns[first(badFn)])
                                 \o "' object has no attribute 'get'")
    ELSE Ret(<<[role |-> "system", content |-> CODE_COMPLETION_SYSTEM],
               [role |-> "user",
                content |-> user_content(includes_str, functions_str, prompt.s, suffix.s)]>>)

\* dict.get(key, default) on a request object
Get(obj, key, default) == IF key \in obj.has THEN obj[key] ELSE default

\* chat_service.validate_context
validate_context(context) ==
    IF context.t # "dict" THEN Raise("ValueError", "context {5FC5}{987B}{662F}{5B57}{5178}")
    ELSE IF Get(context, "prompt", JStr("")).t # "str"
    THEN Raise("ValueError", "context.prompt {5FC5}{987B}{662F}{5B57}{7B26}{4E32}")
    ELSE IF Get(context, "suffix", JStr("")).t # "str"
    THEN Raise("ValueError", "context.suffix {5FC5}{987B}{662F}{5B57}{7B26}{4E32}")
    ELSE IF Truthy(Get(context, "includes", JList(<<>>)))
            /\ Get(context, "includes", JList(<<>>)).t # "list"
    THEN Raise("ValueError", "context.includes {5FC5}{987B}{662F}{6570}{7EC4}")
    ELSE IF Truthy(Get(context, "other_functions", JList(<<>>)))
            /\ Get(context, "other_functions", JList(<<>>)).t # "list"
    THEN Raise("ValueError", "context.other_functions {5FC5}{987B}{662F}{6570}{7EC4}")
    ELSE Ret(None)

\* str(v) of a JSON scalar inside an f-string
Str(v) == CASE v.t = "str" -> v.s [] v.t = "num" -> ToString(v.n) [] OTHER -> "None"

\* what a step of a handler leaves: a response returned, an exception raised, or a
\* request posted upstream (the handler then waits for the reply)
Responded(r, ev) == [tag |-> "respond", resp |-> r, exc |-> NoExc, sent |-> None, events |-> ev]
Raised(exc, ev) == [tag |-> "raise", resp |-> None, exc |-> exc, sent |-> None, events |-> ev]
Posted(sent, ev) == [tag |-> "post", resp |-> None, exc |-> NoExc, sent |-> sent, events |-> ev]

\* call_chat_api lines 56-74, up to the point where the adapter waits for the reply
call_chat_api_begin(context, model, max_tokens, provider) ==
    LET ctx == validate_context(context)
        lower_fails == provider.t # "str"
        no_lower == [cls |-> "AttributeError",
                     msg |-> "'" \o TypeName(provider) \o "' object has no attribute 'lower'"]
        default == get_default_model(provider.s)
        chosen == IF Truthy(model) THEN model ELSE JStr(default.val)
        valid == validate_model(provider.s, Str(chosen))
        prompt_data == build_code_completion_prompt(
                           Get(context, "prompt", JStr("")), Get(context, "suffix", JStr("")),
                           Get(context, "includes", JList(<<>>)),
                           Get(context, "other_functions", JList(<<>>)))
        begun == chat_begin(Lower(provider.s), prompt_data.val, chosen.s, max_tokens)
    IN
    IF ~ctx.ok THEN Raised(ctx.exc, <<>>)
    ELSE IF lower_fails THEN Raised(no_lower, <<>>)
    ELSE IF ~Truthy(model) /\ ~default.ok THEN Raised(default.exc, <<>>)
    ELSE IF ~valid.ok THEN Raised(valid.exc, <<>>)
    ELSE IF ~prompt_data.ok THEN Raised(prompt_data.exc, <<>>)
    ELSE IF begun.exc # NoExc THEN Raised(begun.exc, begun.events)
    ELSE Posted(begun.sent, begun.events)

---------------------------------------------------------------------------
(* views.py *)

NoHeaders == [allow_origin |-> "", allow_methods |-> "", allow_headers |-> ""]
CorsHeaders ==
    [allow_origin |-> "*", allow_methods |-> "GET, POST, OPTIONS",
     allow_headers |-> "Content-Type"]

NoJson == [keys |-> {}, success |-> FALSE, error_code |-> "", error |-> "", payload |-> None]

\* JsonResponse({"success": False, "error_code": ..., "error": ...}, status=...)
ErrorResponse(status, error_code, error) ==
    [status |-> status, headers |-> NoHeaders,
     json |-> [keys |-> {"success", "error_code", "error"}, success |-> FALSE,
               error_code |-> error_code, error |-> error, payload |-> None]]

\* JsonResponse({"success": True, key: payload, ...})
SuccessResponse(keys, payload) ==
    [status |-> 200, headers |-> NoHeaders,
     json |-> [keys |-> {"success"} \cup keys, success |-> TRUE, error_code |-> "",
               error |-> "", payload |-> payload]]

\* cors_exempt setting the headers on the successful responses only
with_cors_on_success(response) ==
    IF response.status = 200 THEN [response EXCEPT !.headers = CorsHeaders] ELSE response

\* cors_exempt lines 20-24
with_cors(response) == [response EXCEPT !.headers = CorsHeaders]
\* cors_exempt lines 14-19
preflight == [status |-> 200, headers |-> CorsHeaders, json |-> NoJson]

\* json.loads(request.body)
json_loads(body) ==
    CASE body.kind = "undecodable" ->
           Raise("UnicodeDecodeError",
                 "'utf-8' codec can't decode byte 0x80 in position 0: invalid start byte")
      [] body.kind = "malformed" -> Raise("JSONDecodeError", JsonErrorText)
      [] OTHER -> Ret(body)

\* views.py lines 95-100 and 152-157: the error code read off the message
error_code_of(error_msg, marker) ==
    LET lowered == Lower(error_msg) IN
    IF Contains(lowered, "timeout") THEN "API_TIMEOUT"
    ELSE IF Contains(lowered, "connection") THEN "API_CONNECTION_ERROR"
    ELSE IF Contains(error_msg, marker) THEN "API_ERROR"
    ELSE "INTERNAL_ERROR"

InvalidJsonText == "{65E0}{6548}{7684}JSON{683C}{5F0F}"
MissingFieldText == "{7F3A}{5C11}{5FC5}{586B}{53C2}{6570}: "

\* completion lines 85-104
completion_except(exc) ==
    IF IsJSONDecodeError(exc.cls) THEN ErrorResponse(400, "INVALID_JSON", InvalidJsonText)
    ELSE ErrorResponse(500, error_code_of(exc.msg, "LLM API"), exc.msg)

\* chat lines 138-161
chat_except(exc) ==
    IF IsJSONDecodeError(exc.cls) THEN ErrorResponse(400, "INVALID_JSON", InvalidJsonText)
    ELSE IF IsValueError(exc.cls) THEN ErrorResponse(400, "INVALID_PARAMS", exc.msg)
    ELSE ErrorResponse(500, error_code_of(exc.msg, "API"), exc.msg)

\* `field not in data` for the decoded body: a dict, a list or a number
Lacks(data, field) ==
    CASE data.kind = "object" -> field \notin data.has
      [] data.kind = "list" -> ~InList(field, data.elems)

NotIterable == [cls |-> "TypeError", msg |-> "argument of type 'int' is not iterable"]
BadIndex == [cls |-> "TypeError", msg |-> "list indices must be integers or slices, not str"]

\* completion with required_fields = ["prompt"]: a body without suffix goes on to
\* data["suffix"]
completion_begin_requiring_prompt_only(body) ==
    LET data == json_loads(body)
        prepared == fim_prepare(body.prompt, body.suffix,
                                Get(body, "includes", JList(<<>>)),
                                Get(body, "other_functions", JList(<<>>)))
    IN
    IF ~data.ok THEN Raised(data.exc, <<>>)
    ELSE IF body.kind = "num" THEN Raised(NotIterable, <<>>)
    ELSE IF Lacks(body, "prompt")
    THEN Responded(ErrorResponse(400, "INVALID_PARAMS", MissingFieldText \o "prompt"), <<>>)
    ELSE IF body.kind = "list" THEN Raised(BadIndex, <<>>)
    ELSE IF Lacks(body, "suffix")
    THEN Raised([cls |-> "KeyError", msg |-> "'suffix'"], <<>>)
    ELSE IF ~prepared.ok THEN Raised(prepared.exc, <<>>)
    ELSE Posted([url |-> "https://api.deepseek.com/beta/completions",
                 auth |-> [header |-> "Authorization: Bearer", key_of |-> "deepseek"],
                 json |-> [model |-> "deepseek-chat", prompt |-> prepared.val.full_prompt,
                           suffix |-> prepared.val.suffix,
                           max_tokens |-> Get(body, "max_tokens", JNum(100))],
                 timeout |-> FimTimeout],
                <<"post">>)

\* completion lines 58-80, up to the point where call_fim_api waits for the reply
completion_begin(body) ==
    LET data == json_loads(body)
        prepared == fim_prepare(body.prompt, body.suffix,
                                Get(body, "includes", JList(<<>>)),
                                Get(body, "other_functions", JList(<<>>)))
    IN
    IF ~data.ok THEN Raised(data.exc, <<>>)
    ELSE IF body.kind = "num" THEN Raised(NotIterable, <<>>)
    ELSE IF Lacks(body, "prompt")
    THEN Responded(ErrorResponse(400, "INVALID_PARAMS", MissingFieldText \o "prompt"), <<>>)
    ELSE IF Lacks(body, "suffix")
    THEN Responded(ErrorResponse(400, "INVALID_PARAMS", MissingFieldText \o "suffix"), <<>>)
    ELSE IF body.kind = "list" THEN Raised(BadIndex, <<>>)
    ELSE IF ~prepared.ok THEN Raised(prepared.exc, <<>>)
    ELSE Posted([url |-> "https://api.deepseek.com/beta/completions",
                 auth |-> [header |-> "Authorization: Bearer", key_of |-> "deepseek"],
                 json |-> [model |-> "deepseek-chat", prompt |-> prepared.val.full_prompt,
                           suffix |-> prepared.val.suffix,
                           max_tokens |-> Get(body, "max_tokens", JNum(100))],
                 timeout |-> FimTimeout],
                <<"post">>)

\* chat lines 112-134, up to the point where the adapter waits for the reply
chat_view_begin(body) ==
    LET data == json_loads(body) IN
    IF ~data.ok THEN Raised(data.exc, <<>>)
    ELSE IF body.kind = "num" THEN Raised(NotIterable, <<>>)
    ELSE IF Lacks(body, "context")
    THEN Responded(ErrorResponse(400, "INVALID_PARAMS", MissingFieldText \o "context"), <<>>)
    ELSE IF body.kind = "list" THEN Raised(BadIndex, <<>>)
    ELSE call_chat_api_begin(body.context, Get(body, "model", JNull),
                             Get(body, "max_tokens", JNum(1000)),
                             Get(body, "provider", JStr("zhipu")))

\* completion_finish reading the reply from a slot all workers share: it answers with
\* whatever reply a worker received last
completion_finish_sharing_reply(outcome) ==
    LET received == {w \in DOMAIN reply : reply[w] # None}
        latest == IF received = {} THEN outcome ELSE reply[CHOOSE w \in received : TRUE]
        suggestion == fim_finish(latest)
    IN [resp |-> IF suggestion.ok THEN SuccessResponse({"suggestion"}, suggestion.val)
                 ELSE completion_except(suggestion.exc),
        events |-> <<"reply", "respond">>]

\* completion lines 80-104 from the reply on: the response, and what happened
completion_finish_retrying(outcome) ==
    LET suggestion == fim_finish(outcome) IN
    IF suggestion.ok
    THEN [resp |-> SuccessResponse({"suggestion"}, suggestion.val),
          events |-> <<"reply", "respond">>]
    ELSE [resp |-> completion_except(suggestion.exc),
          events |-> <<"reply", "post", "reply", "respond">>]

completion_finish(outcome) ==
    LET suggestion == fim_finish(outcome) IN
    [resp |-> IF suggestion.ok THEN SuccessResponse({"suggestion"}, suggestion.val)
              ELSE completion_except(suggestion.exc),
     events |-> <<"reply", "respond">>]

\* call_chat_api lines 74-76 and chat lines 136-161 from the reply on
chat_view_finish(body, sent, outcome) ==
    LET provider == Get(body, "provider", JStr("zhipu")).s
        response_text == chat_finish(Lower(provider), outcome)
    IN
    [resp |-> IF response_text.ok
              THEN SuccessResponse({"response"},
                                   [text |-> response_text.val, model |-> sent.json.model,
                                    provider |-> provider])
              ELSE chat_except(response_text.exc),
     events |-> <<"reply", "respond">>]

\* get_available_providers
get_available_providers == <<"deepseek", "openai", "anthropic", "zhipu">>

\* models lines 33-49
models_view(method) ==
    IF method # "GET" THEN ErrorResponse(405, "INVALID_METHOD", "{53EA}{652F}{6301} GET {8BF7}{6C42}")
    ELSE SuccessResponse({"providers", "models"},
                         [providers |-> get_available_providers, models |-> SUPPORTED_MODELS])

---------------------------------------------------------------------------
(* The requests and the upstream outcomes the server is run on *)

Absent == [present |-> FALSE, v |-> JNull]
Present(S) == {[present |-> TRUE, v |-> x] : x \in S}
Keys(named) == {k \in DOMAIN named : named[k].present}

\* a completion body that decodes to a dict
CompletionObject(prompt, suffix, includes, other_functions, max_tokens) ==
    [kind |-> "object", elems |-> <<>>,
     has |-> Keys([prompt |-> prompt, suffix |-> suffix, includes |-> includes,
                   other_functions |-> other_functions, max_tokens |-> max_tokens]),
     prompt |-> prompt.v, suffix |-> suffix.v, includes |-> includes.v,
     other_functions |-> other_functions.v, max_tokens |-> max_tokens.v]

\* one that does not: bytes that are no UTF-8, text that is no JSON, a number, a list
CompletionOther(kind, elems) ==
    [kind |-> kind, elems |-> elems, has |-> {}, prompt |-> JNull, suffix |-> JNull,
     includes |-> JNull, other_functions |-> JNull, max_tokens |-> JNull]

AddFunction == JFunc({"name", "signature"}, "add", "int add(int a, int b)")

CompletionBodies ==
    { CompletionOther("undecodable", <<>>), CompletionOther("malformed", <<>>),
      CompletionOther("num", <<>>), CompletionOther("list", <<>>),
      CompletionOther("list", <<"prompt", "suffix">>) }
    \cup
    { CompletionObject(p, x, i, f, Absent) :
        p \in {Absent} \cup Present({JStr(""), JStr("int main(){"), JNum(5),
                                     JList(<<JStr("not a string")>>)}),
        x \in {Absent} \cup Present({JStr(""), JStr("}"), JNull}),
        i \in {Absent} \cup Present({JList(<<>>), JList(<<JStr("#include <stdio.h>")>>),
                                     JList(<<JStr("a.h"), JNum(1)>>), JStr("stdio.h"),
                                     JStr("")}),
        f \in {Absent} \cup Present({JList(<<AddFunction>>), JList(<<JFunc({}, "", "")>>),
                                     JList(<<JStr("f")>>), JNum(3), JNull}) }
    \cup
    { CompletionObject(p, x, Absent, Absent, m) :
        p \in Present({JStr("int main(){")}), x \in Present({JStr("}")}),
        m \in Present({JNum(50)}) }

ChatContext(t, prompt, suffix, includes, other_functions) ==
    [t |-> t,
     has |-> Keys([prompt |-> prompt, suffix |-> suffix, includes |-> includes,
                   other_functions |-> other_functions]),
     prompt |-> prompt.v, suffix |-> suffix.v, includes |-> includes.v,
     other_functions |-> other_functions.v]

NoContext == ChatContext("null", Absent, Absent, Absent, Absent)

ChatObject(context, model, provider, max_tokens) ==
    [kind |-> "object", elems |-> <<>>,
     has |-> Keys([context |-> context, model |-> model, provider |-> provider,
                   max_tokens |-> max_tokens]),
     context |-> context.v, model |-> model.v, provider |-> provider.v,
     max_tokens |-> max_tokens.v]

ChatOther(kind, elems) ==
    [kind |-> kind, elems |-> elems, has |-> {}, context |-> NoContext, model |-> JNull,
     provider |-> JNull, max_tokens |-> JNull]

Contexts ==
    { ChatContext("num", Absent, Absent, Absent, Absent) }
    \cup
    { ChatContext("dict", p, x, i, f) :
        p \in {Absent} \cup Present({JStr("int x = "), JNum(1)}),
        x \in {Absent} \cup Present({JStr(";"), JNull}),
        i \in {Absent} \cup Present({JList(<<JStr("#include <stdio.h>")>>),
                                     JList(<<JStr("a.h"), JNum(1)>>), JStr("stdio.h")}),
        f \in {Absent} \cup Present({JList(<<AddFunction>>), JList(<<JStr("f")>>),
                                     JNum(3)}) }

PlainContext ==
    ChatContext("dict", [present |-> TRUE, v |-> JStr("int x = ")],
                [present |-> TRUE, v |-> JStr(";")], Absent, Absent)

ChatBodies ==
    { ChatOther("undecodable", <<>>), ChatOther("malformed", <<>>), ChatOther("num", <<>>),
      ChatOther("list", <<>>), ChatOther("list", <<"context">>),
      ChatObject([present |-> FALSE, v |-> NoContext], Absent, Absent, Absent) }
    \cup
    { ChatObject([present |-> TRUE, v |-> c], Absent, Absent, Absent) : c \in Contexts }
    \cup
    { ChatObject([present |-> TRUE, v |-> PlainContext], m, p, Absent) :
        m \in {Absent} \cup Present({JNull, JStr("deepseek-chat"), JStr("gpt-4o"),
                                     JStr("claude-3-opus-20240229"), JStr("glm-4"),
                                     JStr("GPT-4o"), JStr("nope"), JNum(5)}),
        p \in {Absent} \cup Present({JStr("deepseek"), JStr("OpenAI"), JStr("openai"),
                                     JStr("anthropic"), JStr("zhipu"), JStr("azure"),
                                     JNum(1), JNull}) }

\* a reply text longer than the longest suggestion
LongReply == 600

TextItem(text) == Item({"text", "message", "content"}, text, text, "")

ReplyBodies ==
    { UpstreamBody(FALSE, "absent", "", FALSE, <<>>),
      UpstreamBody(TRUE, "absent", "", FALSE, <<>>),
      UpstreamBody(TRUE, "absent", "", TRUE, <<>>),
      UpstreamBody(TRUE, "absent", "", TRUE, <<Item({}, "", "", "")>>),
      UpstreamBody(TRUE, "absent", "", TRUE, <<Item({"message"}, "", "", "")>>),
      UpstreamBody(TRUE, "absent", "", TRUE,
                   <<Item({"message", "content", "reasoning_content"}, "", "", "x = 1")>>),
      UpstreamBody(TRUE, "absent", "", TRUE, <<TextItem("  return 0;\n")>>),
      UpstreamBody(TRUE, "absent", "", TRUE, <<TextItem(" \n ")>>),
      UpstreamBody(TRUE, "absent", "", TRUE, <<TextItem("~~~cpp\nint x;\n~~~")>>),
      UpstreamBody(TRUE, "absent", "", TRUE, <<TextItem("~~~python\n~~~\n")>>),
      UpstreamBody(TRUE, "absent", "", TRUE,
                   <<TextItem(Text("total += values[i];\n", LongReply))>>),
      UpstreamBody(TRUE, "absent", "", TRUE, <<TextItem("a;\nb;"), TextItem("other")>>),
      UpstreamBody(TRUE, "absent", "", TRUE,
                   <<TextItem("for (int i = 0; i < n; i++) {\n    sum += i;\n}")>>) }

ErrorBodies ==
    { UpstreamBody(FALSE, "absent", "", FALSE, <<>>),
      UpstreamBody(TRUE, "absent", "", FALSE, <<>>),
      UpstreamBody(TRUE, "dict_without_message", "", FALSE, <<>>),
      UpstreamBody(TRUE, "string", "", FALSE, <<>>),
      UpstreamBody(TRUE, "dict_with_message", "Invalid API key", FALSE, <<>>),
      UpstreamBody(TRUE, "dict_with_message", "Gateway Timeout", FALSE, <<>>) }

Outcomes ==
    { Outcome("timeout", "", 0, NoBody), Outcome("connection", "", 0, NoBody),
      Outcome("request_exception", "Exceeded 30 redirects.", 0, NoBody),
      Outcome("request_exception", "Connection broken: IncompleteRead(0 bytes read)", 0,
              NoBody) }
    \cup { Outcome("response", "", 200, b) : b \in ReplyBodies }
    \cup { OlderRequests(Outcome("response", "", 200, NoBody)) }
    \cup { Outcome("response", "", st, b) : st \in {401, 500}, b \in ErrorBodies }
    \cup { Outcome("response", "", 201, UpstreamBody(TRUE, "absent", "", TRUE,
                                                     <<TextItem("return 0;")>>)),
           Outcome("response", "", 201, UpstreamBody(TRUE, "absent", "", TRUE, <<>>)) }

TimedOut(o) == o.kind = "timeout"
\* the POST failed: it raised, or the reply's status is not 2xx
Failed(o) == o.kind # "response" \/ o.status \notin 200..299

---------------------------------------------------------------------------
(* The server: a request is taken and handled up to its response or its upstream
   POST; the reply of the POST, when there is one, ends the request *)

\* completion/__init__.py: the package does not import unless DEEPSEEK_API_KEY is set
Environments == {{"deepseek"} \cup S : S \in SUBSET {"openai", "anthropic", "zhipu"}}

Init ==
    /\ SUPPORTED_MODELS = Catalog
    /\ environ \in Environments
    /\ pc = "idle"
    /\ req = None
    /\ events = <<>>
    /\ upstream = None
    /\ reply = None
    /\ resp = None
    /\ args = None
    /\ ret = None

Frame == UNCHANGED <<SUPPORTED_MODELS, environ, args, ret>>

\* what a view's step leaves in the state
Leave(step) ==
    /\ reply' = None
    /\ IF step.tag = "post"
       THEN /\ pc' = "waiting"
            /\ upstream' = step.sent
            /\ events' = step.events
            /\ resp' = None
       ELSE /\ pc' = "done"
            /\ upstream' = None
            /\ events' = step.events \o <<"respond">>
            /\ resp' = with_cors(step.resp)

\* completion lines 56-104 up to the response or the POST: an exception raised on the way
\* is answered by the except clauses
completion_try(body) ==
    LET step == completion_begin(body) IN
    IF step.tag = "raise" THEN Responded(completion_except(step.exc), step.events) ELSE step

\* chat lines 111-161 up to the response or the POST
chat_try(body) ==
    LET step == chat_view_begin(body) IN
    IF step.tag = "raise" THEN Responded(chat_except(step.exc), step.events) ELSE step

\* the views do not look at the method (models apart): another method than POST is here
\* sent with some of the bodies
Preflight ==
    /\ pc = "idle"
    /\ \E endpoint \in {"completion", "chat", "models"} :
         req' = [endpoint |-> endpoint, method |-> "OPTIONS", body |-> None]
    /\ pc' = "done"
    /\ events' = <<"respond">>
    /\ upstream' = None
    /\ reply' = None
    /\ resp' = preflight
    /\ Frame

Models ==
    /\ pc = "idle"
    /\ \E method \in {"GET", "POST"} :
         /\ req' = [endpoint |-> "models", method |-> method, body |-> None]
         /\ Leave(Responded(models_view(method), <<>>))
    /\ Frame

CompletionStart ==
    /\ pc = "idle"
    /\ \E method \in {"POST", "GET"}, body \in CompletionBodies :
         /\ method = "POST" \/ body.kind # "object"
                            \/ {"includes", "other_functions"} \cap body.has = {}
         /\ req' = [endpoint |-> "completion", method |-> method, body |-> body]
         /\ Leave(completion_try(body))
    /\ Frame

CompletionReply ==
    /\ pc = "waiting"
    /\ req.endpoint = "completion"
    /\ \E o \in Outcomes :
         LET fin == completion_finish(o) IN
         /\ reply' = o
         /\ events' = events \o fin.events
         /\ resp' = with_cors(fin.resp)
    /\ pc' = "done"
    /\ UNCHANGED <<req, upstream>>
    /\ Frame

ChatStart ==
    /\ pc = "idle"
    /\ \E method \in {"POST", "GET"}, body \in ChatBodies :
         /\ method = "POST" \/ body.kind # "object" \/ body.context = PlainContext
         /\ req' = [endpoint |-> "chat", method |-> method, body |-> body]
         /\ Leave(chat_try(body))
    /\ Frame

ChatReply ==
    /\ pc = "waiting"
    /\ req.endpoint = "chat"
    /\ \E o \in Outcomes :
         LET fin == chat_view_finish(req.body, upstream, o) IN
         /\ reply' = o
         /\ events' = events \o fin.events
         /\ resp' = with_cors(fin.resp)
    /\ pc' = "done"
    /\ UNCHANGED <<req, upstream>>
    /\ Frame

\* the response is sent and the worker takes the next request
Finish ==
    /\ pc = "done"
    /\ pc' = "idle"
    /\ req' = None
    /\ events' = <<>>
    /\ upstream' = None
    /\ reply' = None
    /\ resp' = None
    /\ Frame

Next ==
    \/ Preflight
    \/ Models
    \/ CompletionStart
    \/ CompletionReply
    \/ ChatStart
    \/ ChatReply
    \/ Finish

Spec == Init /\ [][Next]_vars

---------------------------------------------------------------------------
(* Inputs of the function-level specifications *)

ManyIncludes == 12
ManyFunctions == 7

PromptLengths == {0, 11, 3900, 4000, 4001, 9000}
SuffixLengths == {0, 1, 150, 4100, 9000}

IncludeLists ==
    { <<>>,
      <<JStr("#include <stdio.h>")>>,
      <<JStr(" \t "), JStr("")>>,
      <<JStr("  #include <a.h>\n"), JStr(" \t "), JStr("#include <b.h>")>>,
      [i \in 1..ManyIncludes |-> JStr("#include <h" \o ToString(i) \o ".h>")],
      <<JStr(Text("0123456789+", 3950))>>,
      <<JStr(Text("0123456789+", 8100))>> }

FunctionLists ==
    { <<>>,
      <<JFunc({"name", "signature"}, "add", "int add(int a, int b)")>>,
      <<JFunc({}, "", "")>>,
      <<JFunc({"name", "signature"}, "f", "")>>,
      [i \in 1..ManyFunctions |-> JFunc({"name"}, "fn" \o ToString(i), "")] }

AllocInputs ==
    { [prompt |-> JStr(Text("abcdefghijklm", pl)), suffix |-> JStr(Text("NOPQRSTUVWXYZ", sl)),
       includes |-> JList(il), other_functions |-> JList(fl)] :
        pl \in PromptLengths, sl \in SuffixLengths, il \in IncludeLists, fl \in FunctionLists }

ProviderInputs ==
    {"deepseek", "openai", "anthropic", "zhipu", "DeepSeek", "OPENAI", "Anthropic", "ZhiPu",
     "azure", ""}

CatalogModels == UNION { {Catalog[p].models[i] : i \in 1..Len(Catalog[p].models)} : p \in DOMAIN Catalog }

ModelInputs == CatalogModels \cup {"GPT-4o", "Deepseek-Chat", "GLM-4", "gpt-5", ""}

---------------------------------------------------------------------------
(* The allocator run as a function: Allocate on the drawn arguments, then Reallocate
   on its own output with no includes and no functions; args are the caller's objects,
   which line 46 writes to *)

InitAlloc ==
    /\ SUPPORTED_MODELS = Catalog
    /\ environ = {}
    /\ pc = "call"
    /\ req = None
    /\ events = <<>>
    /\ upstream = None
    /\ reply = None
    /\ resp = None
    /\ args \in AllocInputs
    /\ ret = None

Allocate ==
    /\ pc = "call"
    /\ ret' = [out |-> fim_prepare(args.prompt, args.suffix, args.includes,
                                   args.other_functions).val,
               again |-> None]
    /\ pc' = "allocated"
    /\ args' = [args EXCEPT !.other_functions =
                   fim_validate(args.prompt, args.suffix, args.includes,
                                args.other_functions).val]
    /\ UNCHANGED <<SUPPORTED_MODELS, environ, req, events, upstream, reply, resp>>

Reallocate ==
    /\ pc = "allocated"
    /\ ret' = [ret EXCEPT !.again =
                 fim_prepare(JStr(ret.out.full_prompt), JStr(ret.out.suffix),
                             JList(<<>>), JList(<<>>)).val]
    /\ pc' = "reallocated"
    /\ UNCHANGED <<SUPPORTED_MODELS, environ, req, events, upstream, reply, resp, args>>

NextAlloc == Allocate \/ Reallocate

SpecAlloc == InitAlloc /\ [][NextAlloc]_vars

---------------------------------------------------------------------------
(* validate_model and get_default_model run as functions *)

InitCatalog ==
    /\ SUPPORTED_MODELS = Catalog
    /\ environ = {}
    /\ pc = "call"
    /\ req = None
    /\ events = <<>>
    /\ upstream = None
    /\ reply = None
    /\ resp = None
    /\ args \in [provider : ProviderInputs, model : ModelInputs]
    /\ ret = None

ValidateModel ==
    /\ pc = "call"
    /\ ret' = validate_model(args.provider, args.model)
    /\ pc' = "validated"
    /\ UNCHANGED <<SUPPORTED_MODELS, environ, req, events, upstream, reply, resp, args>>

GetDefaultModel ==
    /\ pc = "call"
    /\ ret' = get_default_model(args.provider)
    /\ pc' = "defaulted"
    /\ UNCHANGED <<SUPPORTED_MODELS, environ, req, events, upstream, reply, resp, args>>

NextCatalog == ValidateModel \/ GetDefaultModel

SpecCatalog == InitCatalog /\ [][NextCatalog]_vars

---------------------------------------------------------------------------
(* An adapter's chat run as a function on a message sequence: ChatCall up to the POST,
   ChatReturn from its outcome on *)

MaxMessages == 3

\* the content of a message: none, or one of two texts that tell messages apart
Contents == {"", "A", "B"}

MessageSeqs ==
    UNION { [1..n -> [role : {"system", "user", "assistant"}, content : Contents]] :
            n \in 0..MaxMessages }

AdapterOutcomes ==
    { Outcome("timeout", "", 0, NoBody),
      Outcome("response", "", 500, NoBody),
      Outcome("response", "", 200, UpstreamBody(TRUE, "absent", "", TRUE, <<>>)),
      Outcome("response", "", 200,
              UpstreamBody(TRUE, "absent", "", TRUE, <<TextItem("return 0;")>>)) }

InitAdapter ==
    /\ SUPPORTED_MODELS = Catalog
    /\ environ \in {{"deepseek"}, Providers}
    /\ pc = "call"
    /\ req = None
    /\ events = <<>>
    /\ upstream = None
    /\ reply = None
    /\ resp = None
    /\ args \in [provider : Providers, messages : MessageSeqs, max_tokens : {1000}]
    /\ ret = None

ChatCall ==
    /\ pc = "call"
    /\ LET begun == chat_begin(args.provider, args.messages,
                               Catalog[args.provider].default, args.max_tokens)
       IN /\ events' = begun.events
          /\ upstream' = begun.sent
          /\ IF begun.sent = None
             THEN pc' = "raised" /\ ret' = begun.exc
             ELSE pc' = "posted" /\ ret' = None
    /\ UNCHANGED <<SUPPORTED_MODELS, environ, req, reply, resp, args>>

ChatReturn ==
    /\ pc = "posted"
    /\ \E o \in AdapterOutcomes :
         /\ reply' = o
         /\ ret' = chat_finish(args.provider, o)
    /\ pc' = "returned"
    /\ UNCHANGED <<SUPPORTED_MODELS, environ, req, events, upstream, resp, args>>

NextAdapter == ChatCall \/ ChatReturn

SpecAdapter == InitAdapter /\ [][NextAdapter]_vars

---------------------------------------------------------------------------
(* build_code_completion_prompt run as a function; None stands for an argument left
   out *)

TemplateInputs ==
    { [prompt |-> JStr(p), suffix |-> JStr(x), includes |-> i, other_functions |-> f] :
        p \in {"", "int x = "}, x \in {"", ";"},
        i \in {JNull} \cup {JList(il) : il \in IncludeLists},
        f \in {JNull} \cup {JList(fl) : fl \in FunctionLists}
              \cup {JList([i \in 1..ManyFunctions |->
                             IF i = 2 THEN JFunc({}, "", "")
                             ELSE JFunc({"name", "signature"}, "fn" \o ToString(i),
                                        "void fn" \o ToString(i) \o "()")])} }

InitTemplate ==
    /\ SUPPORTED_MODELS = Catalog
    /\ environ = {}
    /\ pc = "call"
    /\ req = None
    /\ events = <<>>
    /\ upstream = None
    /\ reply = None
    /\ resp = None
    /\ args \in TemplateInputs
    /\ ret = None

BuildPrompt ==
    /\ pc = "call"
    /\ ret' = build_code_completion_prompt(args.prompt, args.suffix, args.includes,
                                           args.other_functions)
    /\ pc' = "built"
    /\ UNCHANGED <<SUPPORTED_MODELS, environ, req, events, upstream, reply, resp, args>>

SpecTemplate == InitTemplate /\ [][BuildPrompt]_vars

---------------------------------------------------------------------------
(* The server with several workers: each handles one request at a time, the steps of
   different workers interleave; a worker's request, upstream request, reply and
   response are its own, the catalog and the environment belong to the process *)

NumWorkers == 2
Workers == 1..NumWorkers

ConcRequests ==
    { [endpoint |-> "models", method |-> "GET", body |-> None],
      [endpoint |-> "completion", method |-> "POST",
       body |-> CompletionObject([present |-> TRUE, v |-> JStr("int main(){")],
                                 [present |-> TRUE, v |-> JStr("}")], Absent,
                                 [present |-> TRUE, v |-> JList(<<JFunc({}, "", "")>>)],
                                 Absent)],
      [endpoint |-> "completion", method |-> "POST",
       body |-> CompletionObject([present |-> TRUE, v |-> JStr("int main(){")], Absent,
                                 Absent, Absent, Absent)] }
    \cup
    { [endpoint |-> "chat", method |-> "POST",
       body |-> ChatObject([present |-> TRUE, v |-> PlainContext], Absent,
                           [present |-> TRUE, v |-> JStr(p)], Absent)] :
        p \in {"deepseek", "openai", "azure"} }

InitConc ==
    /\ SUPPORTED_MODELS = Catalog
    /\ environ \in {{"deepseek"}, Providers}
    /\ pc = [w \in Workers |-> "idle"]
    /\ req = [w \in Workers |-> None]
    /\ events = [w \in Workers |-> <<>>]
    /\ upstream = [w \in Workers |-> None]
    /\ reply = [w \in Workers |-> None]
    /\ resp = [w \in Workers |-> None]
    /\ args = None
    /\ ret = None

\* a worker takes a request and runs its view up to the response or the POST
ConcStart ==
    /\ \E w \in Workers, r \in ConcRequests :
         LET step == CASE r.endpoint = "models" -> Responded(models_view(r.method), <<>>)
                       [] r.endpoint = "completion" -> completion_try(r.body)
                       [] r.endpoint = "chat" -> chat_try(r.body)
         IN /\ pc[w] = "idle"
            /\ req' = [req EXCEPT ![w] = r]
            /\ IF step.tag = "post"
               THEN /\ pc' = [pc EXCEPT ![w] = "waiting"]
                    /\ upstream' = [upstream EXCEPT ![w] = step.sent]
                    /\ events' = [events EXCEPT ![w] = step.events]
                    /\ resp' = resp
               ELSE /\ pc' = [pc EXCEPT ![w] = "done"]
                    /\ upstream' = upstream
                    /\ events' = [events EXCEPT ![w] = step.events \o <<"respond">>]
                    /\ resp' = [resp EXCEPT ![w] = with_cors(step.resp)]
    /\ UNCHANGED <<SUPPORTED_MODELS, environ, reply, args, ret>>

\* the POST of a worker ends and its view runs to the response
ConcReply ==
    /\ \E w \in Workers, o \in AdapterOutcomes :
         LET fin == IF req[w].endpoint = "completion" THEN completion_finish(o)
                    ELSE chat_view_finish(req[w].body, upstream[w], o)
         IN /\ pc[w] = "waiting"
            /\ reply' = [reply EXCEPT ![w] = o]
            /\ events' = [events EXCEPT ![w] = @ \o fin.events]
            /\ resp' = [resp EXCEPT ![w] = with_cors(fin.resp)]
            /\ pc' = [pc EXCEPT ![w] = "done"]
    /\ UNCHANGED <<SUPPORTED_MODELS, environ, req, upstream, args, ret>>

\* the response of a worker is sent and the worker is free again
ConcFinish ==
    /\ \E w \in Workers :
         /\ pc[w] = "done"
         /\ pc' = [pc EXCEPT ![w] = "idle"]
         /\ req' = [req EXCEPT ![w] = None]
         /\ events' = [events EXCEPT ![w] = <<>>]
         /\ upstream' = [upstream EXCEPT ![w] = None]
         /\ reply' = [reply EXCEPT ![w] = None]
         /\ resp' = [resp EXCEPT ![w] = None]
    /\ UNCHANGED <<SUPPORTED_MODELS, environ, args, ret>>

NextConc == ConcStart \/ ConcReply \/ ConcFinish

SpecConc == InitConc /\ [][NextConc]_vars

---------------------------------------------------------------------------
(* The properties *)

Count(x, seq) == Cardinality({i \in 1..Len(seq) : seq[i] = x})

Handled(endpoint) == pc = "done" /\ req.endpoint = endpoint /\ req.method = "POST"

Allocated == pc \in {"allocated", "reallocated"}

\* C1: whatever prompt, suffix, includes and other_functions the allocator accepts, the
\* fullPrompt and the suffix it hands to the upstream call are together at most
\* MAX_TOTAL_LENGTH = 8000 characters long.
C1_TotalWithinBudget ==
    Allocated => Len(ret.out.full_prompt) + Len(ret.out.suffix) <= MAX_TOTAL_LENGTH

\* C1 happens: a prompt block too long to leave the suffix its window was cut down to
\* its last 7800 characters and the suffix to 200, which fills the budget exactly
C1_Witness ==
    /\ pc = "allocated"
    /\ ret.out.branch = "reserve"
    /\ Len(args.suffix.s) > SuffixReserve
    /\ Len(ret.out.full_prompt) + Len(ret.out.suffix) = MAX_TOTAL_LENGTH

\* C2: when the upstream POST of a completion or chat request times out, the response is
\* HTTP 500 with success = false and error_code API_TIMEOUT, and carries neither a
\* suggestion nor a response field.
C2_TimeoutIsApiTimeout ==
    (pc = "done" /\ reply # None /\ TimedOut(reply))
    => /\ resp.status = 500
       /\ ~resp.json.success
       /\ resp.json.error_code = "API_TIMEOUT"
       /\ resp.json.keys \cap {"suggestion", "response"} = {}

\* the fields of a completion body are present but fail call_fim_api's type validation
FailsTypeValidation(body) ==
    /\ body.kind = "object"
    /\ {"prompt", "suffix"} \subseteq body.has
    /\ ~fim_validate(body.prompt, body.suffix, Get(body, "includes", JList(<<>>)),
                     Get(body, "other_functions", JList(<<>>))).ok

\* C3: a completion request whose fields are present but fail the type validation
\* (prompt or suffix no string, includes no list of strings, other_functions no list of
\* mappings) is answered with HTTP 400 and INVALID_PARAMS, and nothing is posted upstream.
C3_TypeErrorsAreClientErrors ==
    (Handled("completion") /\ FailsTypeValidation(req.body))
    => /\ resp.status = 400
       /\ resp.json.error_code = "INVALID_PARAMS"
       /\ Count("post", events) = 0

\* C4: a chat request for a valid provider and model whose API key is not configured is
\* answered with HTTP 500 and a server-side error code, never 400 / INVALID_PARAMS, and
\* nothing is posted with another key or to another provider.
C4_MissingKeyIsServerError ==
    (Handled("chat") /\ Count("missing_credential", events) > 0)
    => /\ resp.status = 500
       /\ resp.json.error_code \notin {"INVALID_PARAMS", "INVALID_JSON"}
       /\ Count("post", events) = 0

\* C5: a completion request whose JSON object has no prompt or no suffix is answered
\* with HTTP 400, success = false and INVALID_PARAMS, whatever its other fields hold.
C5_MissingFieldIsInvalidParams ==
    (Handled("completion") /\ req.body.kind = "object"
        /\ ~({"prompt", "suffix"} \subseteq req.body.has))
    => /\ resp.status = 400
       /\ ~resp.json.success
       /\ resp.json.error_code = "INVALID_PARAMS"
       /\ Count("post", events) = 0

\* C5 happens: the body has a prompt and no suffix, and its other fields are of the
\* wrong types
C5_Witness ==
    /\ Handled("completion")
    /\ req.body.kind = "object"
    /\ req.body.has = {"prompt", "includes", "other_functions"}
    /\ req.body.prompt.t = "num"
    /\ req.body.includes.t = "str"
    /\ resp.status = 400

Unparseable(body) == body.kind \in {"undecodable", "malformed"}

\* C6: a completion or chat request whose body is no parseable JSON is answered with
\* HTTP 400, success = false and INVALID_JSON; and INVALID_JSON answers nothing but such
\* a body, never an upstream reply that is no JSON.
C6_InvalidJsonIffUnparseableBody ==
    (Handled("completion") \/ Handled("chat"))
    => /\ Unparseable(req.body)
          => (resp.status = 400 /\ ~resp.json.success
              /\ resp.json.error_code = "INVALID_JSON")
       /\ resp.json.error_code = "INVALID_JSON" => Unparseable(req.body)

\* C7: an adapter whose API key is absent fails before it posts anything: in no call
\* does a missing-credential failure come with an upstream POST, before or after it.
C7_NoPostWithMissingCredential ==
    ~(Count("missing_credential", events) > 0 /\ Count("post", events) > 0)

\* C7 happens: a chat request went as far as the adapter, whose key is not set, and
\* was answered without a request having been sent
C7_Witness ==
    /\ Handled("chat")
    /\ events = <<"get_api_key", "missing_credential", "respond">>
    /\ upstream = None

\* C8: a completion or chat request posts upstream at most once; when that POST fails
\* (timeout, connection failure, a status outside 2xx) the request ends with exactly one
\* response, an error, and the POST is not tried again.
C8_OnePostOneError ==
    /\ Count("post", events) <= 1
    /\ Count("respond", events) <= 1
    /\ (pc = "done" /\ reply # None /\ Failed(reply))
       => /\ Count("post", events) = 1
          /\ Count("respond", events) = 1
          /\ ~resp.json.success
          /\ resp.status >= 400

\* C8 happens: the POST of a request came back with a status outside 2xx and the
\* request was answered
C8_Witness ==
    /\ pc = "done"
    /\ reply # None
    /\ reply.kind = "response"
    /\ reply.status = 500
    /\ events = <<"post", "reply", "respond">>

SamePair(a, b) == a.full_prompt = b.full_prompt /\ a.suffix = b.suffix

\* C9 as stated: the allocator run again on any of its outputs, with no includes and no
\* functions, returns the same fullPrompt and suffix.
C9_Idempotent ==
    pc = "reallocated" => SamePair(ret.again, ret.out)

\* C9: the allocator run again on one of its outputs, with no includes and no
\* functions, returns the same fullPrompt and suffix exactly when the output's
\* fullPrompt is at most MAX_PROMPT_LENGTH = 4000 characters long.
C9_IdempotentWithinPromptLimit ==
    pc = "reallocated"
    => (SamePair(ret.again, ret.out) <=> Len(ret.out.full_prompt) <= MAX_PROMPT_LENGTH)

\* C9 happens: an output with lines before the prompt and a suffix that was cut, whose
\* fullPrompt is within the limit, was allocated again
C9_Witness ==
    /\ pc = "reallocated"
    /\ Len(ret.out.full_prompt) <= MAX_PROMPT_LENGTH
    /\ Len(ret.out.full_prompt) > Len(args.prompt.s)
    /\ ret.out.branch = "shrink_suffix"
    /\ SamePair(ret.again, ret.out)

\* the catalog key each provider argument of ProviderInputs spells, letter case aside
SpelledKey ==
    [p \in ProviderInputs |->
        CASE p \in {"deepseek", "DeepSeek"} -> "deepseek"
          [] p \in {"openai", "OPENAI"} -> "openai"
          [] p \in {"anthropic", "Anthropic"} -> "anthropic"
          [] p \in {"zhipu", "ZhiPu"} -> "zhipu"
          [] OTHER -> "none"]

\* C10: validate_model(provider, model) returns model when provider, letter case aside,
\* is a key of the catalog and model is, letter for letter, in that provider's list; it
\* raises ValueError for a model of another provider's list only, for a model that
\* differs from a listed one in letter case, and for a provider the catalog has not.
C10_ValidateModel ==
    pc = "validated"
    => LET key == SpelledKey[args.provider] IN
       IF key \in DOMAIN Catalog /\ InList(args.model, Catalog[key].models)
       THEN ret.ok /\ ret.val = args.model
       ELSE ~ret.ok /\ ret.exc.cls = "ValueError"

\* C10 happens: a provider key in capitals was given with a model of its list and the
\* model came back
C10_Witness ==
    /\ pc = "validated"
    /\ args.provider = "OPENAI"
    /\ args.model = "gpt-4o"
    /\ ret.ok

\* the provider a chat body selects: data.get("provider", "zhipu")
ChosenProvider(body) == Get(body, "provider", JStr("zhipu"))

\* the provider selected is none of the four registered ones, letter case aside
SelectsUnknownProvider(body) ==
    LET provider == ChosenProvider(body) IN
    provider.t # "str" \/ Lower(provider.s) \notin Providers

\* a model is named that the selected, registered provider does not list
SelectsUnsupportedModel(body) ==
    LET provider == ChosenProvider(body)
        model == Get(body, "model", JNull)
    IN /\ ~SelectsUnknownProvider(body)
       /\ Truthy(model)
       /\ ~(model.t = "str" /\ InList(model.s, Catalog[Lower(provider.s)].models))

\* C11: a chat request whose provider is none of the four registered providers, or
\* whose model is not in the list of the provider it selects, is answered with HTTP 400
\* and INVALID_PARAMS, whether the provider's API key is set or not.
C11_BadSelectionIsInvalidParams ==
    (Handled("chat") /\ req.body.kind = "object" /\ "context" \in req.body.has
        /\ (SelectsUnknownProvider(req.body) \/ SelectsUnsupportedModel(req.body)))
    => /\ resp.status = 400
       /\ resp.json.error_code = "INVALID_PARAMS"
       /\ Count("post", events) = 0

\* s.split("\n"): the lines of a text
Lines(s) ==
    LET breaks == {0, Len(s) + 1} \cup {i \in 1..Len(s) : CharAt(s, i) = "\n"}
        nth(k) == CHOOSE b \in breaks : Cardinality({c \in breaks : c < b}) = k
    IN [k \in 1..(Cardinality(breaks) - 1) |-> SubSeq(s, nth(k - 1) + 1, nth(k) - 1)]

\* tail is what is left of whole when some of its first elements are dropped
IsTailOf(tail, whole) ==
    /\ Len(tail) <= Len(whole)
    /\ tail = SubSeq(whole, Len(whole) - Len(tail) + 1, Len(whole))

\* the entries at the first n places of a list of strings, trimmed, blanks left out
FirstEntries(l, n) ==
    LET first == SubSeq(l, 1, Min(n, Len(l)))
        trimmed == [i \in 1..Len(first) |-> Strip(first[i].s)]
    IN SelectSeq(trimmed, LAMBDA entry : entry # "")

\* the lines of the fullPrompt that are entries of includes, in the order they stand in
EmittedIncludes ==
    LET entries == FirstEntries(args.includes.l, Len(args.includes.l)) IN
    SelectSeq(Lines(ret.out.full_prompt), LAMBDA line : InList(line, entries))

\* C12: whatever includes holds, more than 10 entries in particular, the fullPrompt
\* holds at most 10 include entries, each from the first 10 places of includes, in
\* their order there: all of them when the prompt block was not cut, else the last ones.
C12_AtMostTenIncludes ==
    pc = "allocated"
    => /\ Len(EmittedIncludes) <= MAX_INCLUDES
       /\ IsTailOf(EmittedIncludes, FirstEntries(args.includes.l, MAX_INCLUDES))
       /\ ret.out.branch \in {"fits", "shrink_suffix"}
          => EmittedIncludes = FirstEntries(args.includes.l, MAX_INCLUDES)

\* C12 happens: includes has more than 10 entries and the fullPrompt holds 10 of them
C12_Witness ==
    /\ pc = "allocated"
    /\ Len(args.includes.l) > MAX_INCLUDES
    /\ Len(EmittedIncludes) = MAX_INCLUDES

StartsWith(s, prefix) == Len(s) >= Len(prefix) /\ SubSeq(s, 1, Len(prefix)) = prefix

\* the signature the entry at place i of other_functions is shown by: its signature,
\* else its name, else the name function_<i - 1> the validation gave it
ShownSignature(func, i) ==
    IF "signature" \in func.d.keys THEN func.d.signature
    ELSE IF "name" \in func.d.keys THEN func.d.name
    ELSE "function_" \o ToString(i - 1)

\* the comment lines of the entries at the first n places of other_functions
FirstSignatureLines(l, n) ==
    LET first == SubSeq(l, 1, Min(n, Len(l)))
        shown == [i \in 1..Len(first) |-> ShownSignature(first[i], i)]
        signed == SelectSeq(shown, LAMBDA signature : signature # "")
    IN [i \in 1..Len(signed) |-> "//   " \o signed[i]]

\* the function comment lines of the fullPrompt, in the order they stand in
EmittedFunctions ==
    SelectSeq(Lines(ret.out.full_prompt), LAMBDA line : StartsWith(line, "//   "))

\* C13: whatever other_functions holds, more than 5 entries in particular, the
\* fullPrompt holds at most 5 function comment lines, each made from an entry at the
\* first 5 places of other_functions, in their order there: all of them when the prompt
\* block was not cut, else the last ones.
C13_AtMostFiveFunctions ==
    pc = "allocated"
    => /\ Len(EmittedFunctions) <= MAX_FUNCTIONS
       /\ IsTailOf(EmittedFunctions,
                   FirstSignatureLines(args.other_functions.l, MAX_FUNCTIONS))
       /\ ret.out.branch \in {"fits", "shrink_suffix"}
          => EmittedFunctions = FirstSignatureLines(args.other_functions.l, MAX_FUNCTIONS)

\* C13 happens: other_functions has more than 5 entries and the fullPrompt holds 5
\* function comment lines
C13_Witness ==
    /\ pc = "allocated"
    /\ Len(args.other_functions.l) > MAX_FUNCTIONS
    /\ Len(EmittedFunctions) = MAX_FUNCTIONS

\* the arguments are a prompt alone: no suffix, no includes, no functions
PromptAlone ==
    args.suffix.s = "" /\ args.includes.l = <<>> /\ args.other_functions.l = <<>>

\* C14: for a prompt of more than 4000 characters (9000, say) with an empty suffix and
\* no includes or functions, the fullPrompt is at most 7800 characters long and is the
\* last N characters, N its own length, of the first 4000 characters of the prompt.
C14_LongPromptAlone ==
    (pc = "allocated" /\ PromptAlone /\ Len(args.prompt.s) > MAX_PROMPT_LENGTH)
    => LET N == Len(ret.out.full_prompt) IN
       /\ N <= MAX_TOTAL_LENGTH - SuffixReserve
       /\ N <= MAX_PROMPT_LENGTH
       /\ ret.out.full_prompt
            = SubSeq(args.prompt.s, MAX_PROMPT_LENGTH - N + 1, MAX_PROMPT_LENGTH)

\* C14 happens: a prompt of 9000 characters alone was allocated, and the fullPrompt is
\* 4000 characters long
C14_Witness ==
    /\ pc = "allocated"
    /\ PromptAlone
    /\ Len(args.prompt.s) = 9000
    /\ Len(ret.out.full_prompt) = MAX_PROMPT_LENGTH

\* the completion request was answered with a suggestion that is not null
Suggested ==
    /\ Handled("completion")
    /\ resp.json.success
    /\ "suggestion" \in resp.json.keys
    /\ ~resp.json.payload.is_none

\* C15: the label of every suggestion that is not null is a single line, with no
\* newline in it, of at most 33 characters: the first 30 characters of text with each
\* newline replaced by a space, followed by "..." exactly when text is longer than 30.
C15_LabelIsOneLinePreview ==
    Suggested
    => LET text == resp.json.payload.text
           label == resp.json.payload.label
       IN /\ ~Contains(label, "\n")
          /\ Len(label) <= LabelLength + 3
          /\ label = Replace(Take(text, LabelLength), "\n", " ")
                     \o (IF Len(text) > LabelLength THEN "..." ELSE "")

\* the text the model returned in a reply of the completion upstream: the text of the
\* first choice, nothing when the reply has no choice or the choice no text
ModelText(o) ==
    IF o.body.items_present /\ o.body.items # <<>> /\ "text" \in o.body.items[1].fields
    THEN o.body.items[1].text ELSE ""

\* nothing is left of a text once the code-fence markers and the whitespace around
\* what remains are taken away
EmptyOnceStripped(text) ==
    LET bare == Replace(Replace(Replace(Replace(text, "~~~cpp", ""), "~~~python", ""),
                                "~~~c", ""), "~~~", "")
    IN \A i \in 1..Len(bare) : IsSpace(SubSeq(bare, i, i))

\* the completion request was answered after the upstream replied with a JSON
\* document under one of the given statuses
CompletionReplied(statuses) ==
    /\ Handled("completion")
    /\ reply # None
    /\ reply.kind = "response"
    /\ reply.status \in statuses
    /\ reply.body.json_ok

\* the response the claim C16 describes for the reply
AnsweredWithSuggestion ==
    /\ resp.status = 200
    /\ resp.json.success
    /\ "suggestion" \in resp.json.keys
    /\ IF EmptyOnceStripped(ModelText(reply))
       THEN resp.json.payload.is_none
       ELSE /\ ~resp.json.payload.is_none
            /\ Len(resp.json.payload.text) \in 1..MaxSuggestionLength
            /\ Len(resp.json.payload.label) >= 1

PlacesOf(role) == {i \in 1..Len(args.messages) : args.messages[i].role = role}

\* the Anthropic adapter posted a request for a sequence holding both a system and a
\* user message
AnthropicPosted ==
    /\ pc \in {"posted", "returned"}
    /\ args.provider = "anthropic"
    /\ PlacesOf("system") # {}
    /\ PlacesOf("user") # {}

\* C17 as stated: the body the Anthropic adapter posts has its system field equal to
\* the content of the first message with role system, its messages array is the single
\* element holding the content of the first message with role user, and no system-role
\* entry appears inside messages
C17_FirstSystemFirstUser ==
    AnthropicPosted
    => LET first(S) == CHOOSE i \in S : \A j \in S : i <= j
           body == upstream.json
       IN /\ body.system = args.messages[first(PlacesOf("system"))].content
          /\ body.messages
             = <<[role |-> "user",
                  content |-> args.messages[first(PlacesOf("user"))].content]>>
          /\ \A i \in 1..Len(body.messages) : body.messages[i].role # "system"

\* C17: the body the Anthropic adapter posts takes its system field from the last
\* message with role system (the field is absent when that content is empty), its
\* messages array is the single user-role element holding the content of the last
\* message with role user, and no system-role entry appears inside messages
C17_LastSystemLastUser ==
    AnthropicPosted
    => LET last(S) == CHOOSE i \in S : \A j \in S : i >= j
           body == upstream.json
           system == args.messages[last(PlacesOf("system"))].content
       IN /\ body.has_system <=> system # ""
          /\ body.has_system => body.system = system
          /\ body.messages
             = <<[role |-> "user",
                  content |-> args.messages[last(PlacesOf("user"))].content]>>
          /\ \A i \in 1..Len(body.messages) : body.messages[i].role # "system"

\* a sequence with two system messages of different contents and a user message was
\* posted, the system field holding the second
C17_Witness ==
    /\ AnthropicPosted
    /\ \E i, j \in PlacesOf("system") :
         /\ i < j
         /\ args.messages[i].content # args.messages[j].content
         /\ args.messages[i].content # ""
         /\ upstream.json.has_system
         /\ upstream.json.system = args.messages[j].content

\* the chat request was answered after the upstream replied with a JSON document
ChatReplied ==
    /\ Handled("chat")
    /\ reply # None
    /\ reply.kind = "response"
    /\ reply.body.json_ok

\* the reply's choices list (content list for Anthropic) is empty or absent
NoChoices == ~reply.body.items_present \/ reply.body.items = <<>>

AnsweredEmptyText ==
    /\ resp.status = 200
    /\ resp.json.success
    /\ "response" \in resp.json.keys
    /\ resp.json.payload.text = ""

AnsweredUpstreamError ==
    /\ resp.status = 500
    /\ ~resp.json.success
    /\ resp.json.error_code \in {"API_ERROR", "API_TIMEOUT", "API_CONNECTION_ERROR"}

\* C18 as stated: for every adapter a reply of any 2xx status with an empty or absent
\* choices list is answered success=true with text "", and only replies of a non-2xx
\* status are classified as upstream errors
C18_EmptyChoicesAfterAny2xx ==
    ChatReplied
    => /\ reply.status \in 200..299 /\ NoChoices => AnsweredEmptyText
       /\ AnsweredUpstreamError => reply.status \notin 200..299

\* C18: for every adapter a reply of status 200 with an empty or absent choices list
\* (content list for Anthropic) is answered success=true with text "", and a reply of
\* any other status is answered as an upstream error
C18_EmptyChoicesAfter200 ==
    ChatReplied
    => /\ reply.status = 200 /\ NoChoices => AnsweredEmptyText
       /\ reply.status # 200 => AnsweredUpstreamError

\* the Anthropic adapter answered a 200 reply without a content list with text ""
C18_Witness ==
    /\ ChatReplied
    /\ upstream.url = API_URL("anthropic")
    /\ reply.status = 200
    /\ ~reply.body.items_present
    /\ AnsweredEmptyText

\* the includes section the claim C19 describes: the first 10 includes joined by
\* newlines, the placeholder when there are none
IncludesSection ==
    IF args.includes.l = <<>> THEN Placeholder
    ELSE Join("\n", [i \in 1..Min(Len(args.includes.l), TemplateIncludes) |->
                       args.includes.l[i].s])

\* the signatures of the first 5 functions, those that have one
SignaturesShown ==
    LET firsts == Take(args.other_functions.l, TemplateFunctions)
        sig(func) == IF "signature" \in func.d.keys THEN func.d.signature
                     ELSE IF "name" \in func.d.keys THEN func.d.name ELSE ""
    IN SelectSeq([i \in 1..Len(firsts) |-> sig(firsts[i])], LAMBDA s : s # "")

\* the functions section the claim C19 describes: each signature on its own line after
\* two spaces, the placeholder when there are none
FunctionsSection ==
    IF SignaturesShown = <<>> THEN Placeholder
    ELSE Join("\n", [i \in 1..Len(SignaturesShown) |-> "  " \o SignaturesShown[i]])

\* C19: build_code_completion_prompt returns exactly two messages, system then user,
\* and the user message embeds the first 10 includes joined by newlines, or the
\* placeholder when there are no includes, and the first 5 function signatures, each on
\* its own line after two spaces, or the placeholder when there are no functions
\* (other_functions empty or absent)
C19_TemplateEmbedsContext ==
    pc = "built"
    => /\ ret.ok
       /\ Len(ret.val) = 2
       /\ ret.val[1].role = "system"
       /\ ret.val[2].role = "user"
       /\ ret.val[2].content
          = user_content(IncludesSection, FunctionsSection, args.prompt.s, args.suffix.s)

\* C20: every response of the completion, chat and models endpoints, success or
\* failure and whatever the method, carries Access-Control-Allow-Origin "*",
\* Allow-Methods containing GET, POST and OPTIONS, and Allow-Headers Content-Type; an
\* OPTIONS request is answered with status 200 and no body, without any step of the
\* view: no upstream request, no reply, no event before the response
C20_CorsOnEveryResponse ==
    pc = "done"
    => /\ req.endpoint \in {"completion", "chat", "models"}
       /\ resp.headers.allow_origin = "*"
       /\ \A method \in {"GET", "POST", "OPTIONS"} :
            Contains(resp.headers.allow_methods, method)
       /\ resp.headers.allow_headers = "Content-Type"
       /\ req.method = "OPTIONS"
          => /\ resp.status = 200
             /\ resp.json = NoJson
             /\ events = <<"respond">>
             /\ upstream = None
             /\ reply = None

\* a request of another method than POST failed at the upstream and its error response
\* carries the headers
C20_Witness ==
    /\ pc = "done"
    /\ req.method = "GET"
    /\ req.endpoint \in {"completion", "chat"}
    /\ reply # None
    /\ resp.status = 500
    /\ ~resp.json.success
    /\ resp.headers = CorsHeaders

\* the completion request carried the empty string as prompt and as suffix
EmptyStrings ==
    /\ Handled("completion")
    /\ req.body.kind = "object"
    /\ {"prompt", "suffix"} \subseteq req.body.has
    /\ req.body.prompt = JStr("")
    /\ req.body.suffix = JStr("")

\* C21: a completion request whose prompt and suffix are both the empty string is never
\* answered with success=true: the response is success=false with HTTP 400
\* (INVALID_PARAMS) or HTTP 500 (API_ERROR or INTERNAL_ERROR), whatever the upstream
\* returns
C21_EmptyStringsAreRefused ==
    EmptyStrings
    => /\ ~resp.json.success
       /\ \/ resp.status = 400 /\ resp.json.error_code = "INVALID_PARAMS"
          \/ resp.status = 500 /\ resp.json.error_code \in {"API_ERROR", "INTERNAL_ERROR"}

\* two workers that handled the same request with the same upstream outcome gave the
\* same response, and the catalog is what it was at the start
SameInputSameResponse ==
    /\ SUPPORTED_MODELS = Catalog
    /\ \A v, w \in Workers :
         pc[v] = "done" /\ pc[w] = "done" /\ req[v] = req[w] /\ reply[v] = reply[w]
         => resp[v] = resp[w]

\* a step leaves the catalog and every response that is not yet sent as they are,
\* whichever worker takes it and whether its request fails or not
ResponsesStay ==
    /\ SUPPORTED_MODELS' = SUPPORTED_MODELS
    /\ \A w \in Workers : pc[w] = "done" /\ pc'[w] = "done" => resp'[w] = resp[w]

\* C22: in every interleaving of the workers' steps a request's response depends only
\* on its own input and its own upstream outcome, no step of one request (a failure
\* included) changes the response of another, and the catalog has the same content
\* before and after every request
C22_RequestsAreIndependent == []SameInputSameResponse /\ [][ResponsesStay]_vars

\* two workers handled the same request at the same time, one failed at the upstream
\* and the other was answered with success
C22_Witness ==
    /\ pc[1] = "done" /\ pc[2] = "done"
    /\ req[1] = req[2]
    /\ reply[1] # None /\ reply[2] # None
    /\ resp[1].status = 500
    /\ resp[2].status = 200 /\ resp[2].json.success

\* the fullPrompt handed on is the one assembled: budget enforcement left it alone
Uncut == pc = "allocated" /\ ret.out.branch \in {"fits", "shrink_suffix"}

IncludeEmitted == FirstEntries(args.includes.l, MAX_INCLUDES) # <<>>
FunctionsEmitted == args.other_functions.l # <<>>

\* the places of the middle lines of the three-line separators in the fullPrompt
SeparatorPlaces ==
    LET lines == Lines(ret.out.full_prompt) IN
    {i \in 2..(Len(lines) - 1) :
        lines[i - 1] = "" /\ lines[i] = "==========" /\ lines[i + 1] = ""}

\* the place of a separator that stands directly before the prompt block
BeforePromptBlock ==
    Len(Lines(ret.out.full_prompt)) - Len(Lines(Take(args.prompt.s, MAX_PROMPT_LENGTH))) - 1

\* the place of a separator that stands directly after the include lines
AfterIncludes == Len(FirstEntries(args.includes.l, MAX_INCLUDES)) + 2

\* C23: before budget enforcement the fullPrompt holds no separator when neither an
\* include line nor the functions block was emitted (it is then the head-truncated
\* prompt), one, directly before the prompt block, when exactly one of the two was
\* emitted, and two, one between the blocks and one before the prompt block, when both
\* were emitted
C23_SeparatorsFollowBlocks ==
    Uncut
    => /\ ~IncludeEmitted /\ ~FunctionsEmitted
          => /\ SeparatorPlaces = {}
             /\ ret.out.full_prompt = Take(args.prompt.s, MAX_PROMPT_LENGTH)
       /\ IncludeEmitted # FunctionsEmitted => SeparatorPlaces = {BeforePromptBlock}
       /\ IncludeEmitted /\ FunctionsEmitted
          => /\ SeparatorPlaces = {AfterIncludes, BeforePromptBlock}
             /\ AfterIncludes < BeforePromptBlock

\* includes and functions were both emitted and the fullPrompt holds two separators
C23_Witness ==
    /\ Uncut
    /\ IncludeEmitted /\ FunctionsEmitted
    /\ Cardinality(SeparatorPlaces) = 2

\* what the claim C24 has the entry at place i of other_functions shown by: its
\* signature when it has one that is not empty, otherwise its name (the name
\* function_<i - 1> when it came without one)
PreferredSignature(func, i) ==
    IF "signature" \in func.d.keys /\ func.d.signature # "" THEN func.d.signature
    ELSE IF "name" \in func.d.keys THEN func.d.name
    ELSE "function_" \o ToString(i - 1)

\* C24: for each of the first 5 entries of other_functions the fullPrompt holds a
\* comment line carrying the entry's signature when it has one that is not empty and
\* otherwise the entry's name; an entry is left out only when it yields neither
C24_SignatureElseName ==
    Uncut
    => LET first == Take(args.other_functions.l, MAX_FUNCTIONS)
           shown == [i \in 1..Len(first) |-> PreferredSignature(first[i], i)]
           kept == SelectSeq(shown, LAMBDA signature : signature # "")
       IN EmittedFunctions = [i \in 1..Len(kept) |-> "//   " \o kept[i]]

\* the fullPrompt as assembled from the arguments, before budget enforcement
Assembled ==
    Join("\n", prompt_parts(args.prompt.s, args.includes,
                            name_functions(args.other_functions)))

\* C25: budget enforcement follows the case analysis: when len(fullPrompt) +
\* len(suffix) <= 8000 neither string is changed; when it exceeds 8000 and
\* 8000 - len(fullPrompt) > 100, fullPrompt is unchanged and suffix becomes its first
\* 8000 - len(fullPrompt) characters; otherwise fullPrompt becomes its last 7800
\* characters and suffix its first 200 characters
C25_BudgetCaseAnalysis ==
    pc = "allocated"
    => LET fullPrompt == Assembled
           suffix == args.suffix.s
           room == 8000 - Len(fullPrompt)
       IN IF Len(fullPrompt) + Len(suffix) <= 8000
          THEN ret.out.full_prompt = fullPrompt /\ ret.out.suffix = suffix
          ELSE IF room > 100
          THEN /\ ret.out.full_prompt = fullPrompt
               /\ ret.out.suffix = SubSeq(suffix, 1, room)
          ELSE /\ ret.out.full_prompt
                  = SubSeq(fullPrompt, Max(1, Len(fullPrompt) - 7800 + 1), Len(fullPrompt))
               /\ ret.out.suffix = SubSeq(suffix, 1, Min(200, Len(suffix)))

\* the third case happened: a fullPrompt of more than 7900 characters lost its head and
\* a suffix of more than 200 characters its tail
C25_Witness ==
    /\ pc = "allocated"
    /\ Len(Assembled) > 7900
    /\ Len(args.suffix.s) > 200
    /\ Len(ret.out.full_prompt) = 7800
    /\ Len(ret.out.suffix) = 200

\* budget enforcement had to act: the assembled fullPrompt and the suffix together
\* exceed the budget
OverBudget ==
    pc = "allocated" /\ Len(Assembled) + Len(args.suffix.s) > MAX_TOTAL_LENGTH

\* C26: no input reaches the extreme fallback branch (fullPrompt = last 500 characters
\* of the head-truncated prompt, suffix = first 500 characters of suffix): whenever
\* budget enforcement acts, its result comes from the suffix-shrink branch or from the
\* reserve-200 branch
C26_FallbackUnreachable ==
    /\ Allocated => ret.out.branch # "fallback"
    /\ OverBudget
       => \/ /\ ret.out.branch = "shrink_suffix"
             /\ ret.out.full_prompt = Assembled
             /\ Len(ret.out.suffix) = MAX_TOTAL_LENGTH - Len(Assembled)
          \/ /\ ret.out.branch = "reserve"
             /\ Len(ret.out.full_prompt) = MAX_TOTAL_LENGTH - SuffixReserve
             /\ Len(ret.out.suffix) <= SuffixReserve

\* the case the fallback was written for happened, a fullPrompt that alone exceeds the
\* budget by more than the reserve, and the reserve-200 branch handled it
C26_Witness ==
    /\ OverBudget
    /\ Len(Assembled) > MAX_TOTAL_LENGTH + SuffixReserve
    /\ ret.out.branch = "reserve"
    /\ Len(ret.out.full_prompt) = MAX_TOTAL_LENGTH - SuffixReserve

\* C27: the allocator leaves its arguments as they were: after call_fim_api's
\* validation and prompt assembly the caller's includes list and every entry of the
\* caller's other_functions list, the entries that had no name included, are equal to
\* their values before the call
C27_ArgumentsUntouched ==
    [][pc = "call" /\ pc' = "allocated"
       => /\ args'.includes = args.includes
          /\ Len(args'.other_functions.l) = Len(args.other_functions.l)
          /\ \A i \in 1..Len(args.other_functions.l) :
               args'.other_functions.l[i] = args.other_functions.l[i]]_vars

\* C28: whatever prompt, suffix, includes and other_functions are, the suffix
\* call_fim_api sends upstream is at most MAX_SUFFIX_LENGTH = 4000 characters long
C28_SuffixWithinItsLimit ==
    Allocated => Len(ret.out.suffix) <= MAX_SUFFIX_LENGTH

EndsWith(s, ending) ==
    Len(s) >= Len(ending) /\ SubSeq(s, Len(s) - Len(ending) + 1, Len(s)) = ending

\* C29: for every input the fullPrompt sent upstream ends with the whole head-truncated
\* prompt, prompt[:4000], and the suffix sent upstream is a prefix of the input suffix:
\* budget enforcement removes characters only from the preamble of includes, functions
\* and separators and from the end of the suffix
C29_PromptBlockSurvives ==
    pc = "allocated"
    => /\ EndsWith(ret.out.full_prompt, Take(args.prompt.s, MAX_PROMPT_LENGTH))
       /\ StartsWith(args.suffix.s, ret.out.suffix)

\* a fullPrompt whose preamble was cut still ends with its whole 4000-character prompt
\* block, and the suffix sent is the shortened input suffix
C29_Witness ==
    /\ pc = "allocated"
    /\ Len(ret.out.full_prompt) < Len(Assembled)
    /\ Len(args.prompt.s) >= MAX_PROMPT_LENGTH
    /\ Len(ret.out.suffix) < Len(args.suffix.s)
    /\ EndsWith(ret.out.full_prompt, Take(args.prompt.s, MAX_PROMPT_LENGTH))

=============================================================================
